---- MODULE Spec2Model ----
(***************************************************************************)
(* Model of the skill-library main process (src/unnamed/part_003): the     *)
(* path sandbox validator, the name/path sanitizers and the IPC handlers   *)
(* that mutate the library on disk.                                        *)
(*                                                                         *)
(* Paths and names are strings, handled character by character the way     *)
(* the POSIX flavour of Node's path module and the JavaScript regular      *)
(* expressions of the source handle them.  The disk is a function from     *)
(* canonical absolute paths to nodes.                                      *)
(***************************************************************************)
EXTENDS Integers, Sequences, FiniteSets, TLC

VARIABLES
    fs,     \* the disk: canonical absolute path -> [kind, content]
    prev,   \* history: the disk as it was when the last request arrived
    req,    \* the last request received by an IPC handler (channel + payload)
    res,    \* the value that handler returned to the renderer
    nops,   \* number of requests handled so far
    call,   \* the last call of a utility function: its arguments and its outcome
    trackedTempFiles,  \* the set of archive paths main.js keeps for its cleanup
    output, \* the write stream of the export under way, if there is one
    app,    \* the main process: its phase, its windows, what its cleanups have left to do
    ui      \* the renderer: its variables, its editor, its suspended async functions

vars == <<fs, prev, req, res, nops, call, trackedTempFiles, output, app, ui>>

\* `const x = v; ...x...x...`: the value is computed once and named
With(v, F(_)) == F(v)

Max(S) == CHOOSE m \in S : \A x \in S : x <= m

(***************************************************************************)
(* Characters and strings                                                  *)
(***************************************************************************)
Ch(s, i) == SubSeq(s, i, i)

LowerLetters == "abcdefghijklmnopqrstuvwxyz"
UpperLetters == "ABCDEFGHIJKLMNOPQRSTUVWXYZ"
DigitChars == "0123456789"

CharsOf(s) == {Ch(s, i) : i \in 1..Len(s)}

LowerSet == CharsOf(LowerLetters)
UpperSet == CharsOf(UpperLetters)
DigitSet == CharsOf(DigitChars)

\* String.prototype.toLowerCase on one character (ASCII letters)
LowerChar(c) ==
    IF c \in UpperSet
    THEN Ch(LowerLetters, CHOOSE i \in 1..Len(UpperLetters) : Ch(UpperLetters, i) = c)
    ELSE c

\* String.prototype.toLowerCase on the characters lo..hi of s
RECURSIVE toLowerCaseRange(_, _, _)
toLowerCaseRange(s, lo, hi) ==
    IF lo > hi THEN ""
    ELSE IF lo = hi THEN LowerChar(Ch(s, lo))
    ELSE toLowerCaseRange(s, lo, (lo + hi) \div 2)
         \o toLowerCaseRange(s, ((lo + hi) \div 2) + 1, hi)

toLowerCase(s) == toLowerCaseRange(s, 1, Len(s))

\* s.replace(/[^...]/g, '') on the characters lo..hi of s: every character outside
\* `keep` is dropped, the others stay in order
RECURSIVE StripRange(_, _, _, _)
StripRange(s, lo, hi, keep) ==
    IF lo > hi THEN ""
    ELSE IF lo = hi THEN (IF Ch(s, lo) \in keep THEN Ch(s, lo) ELSE "")
    ELSE StripRange(s, lo, (lo + hi) \div 2, keep)
         \o StripRange(s, ((lo + hi) \div 2) + 1, hi, keep)

Strip(s, keep) == StripRange(s, 1, Len(s), keep)

\* String.prototype.startsWith
StartsWith(s, pre) == Len(pre) <= Len(s) /\ SubSeq(s, 1, Len(pre)) = pre

\* the pieces of s that the separator positions P (ascending, with 0 first and
\* Len(s) + 1 last) enclose, empty pieces kept
Pieces(s, P) == [k \in 1..(Len(P) - 1) |-> SubSeq(s, P[k] + 1, P[k + 1] - 1)]

\* the positions 1..Len(s) of s that hold a character of seps, in ascending order
Positions(s, seps) == SelectSeq([i \in 1..Len(s) |-> i], LAMBDA i : Ch(s, i) \in seps)

\* s.split(sep) for a one-character separator out of seps
Split(s, seps) == Pieces(s, <<0>> \o Positions(s, seps) \o <<Len(s) + 1>>)

\* Array.prototype.filter(Boolean) on strings: the empty ones are dropped
NonEmpty(segs) == SelectSeq(segs, LAMBDA x : x # "")

\* Array.prototype.join
RECURSIVE JoinFrom(_, _, _)
JoinFrom(segs, i, glue) ==
    IF i > Len(segs) THEN ""
    ELSE IF i = Len(segs) THEN segs[i]
    ELSE segs[i] \o glue \o JoinFrom(segs, i + 1, glue)

JoinSegs(segs, glue) == JoinFrom(segs, 1, glue)

(***************************************************************************)
(* Node's path module, POSIX flavour                                       *)
(***************************************************************************)
sep == "/"

\* normalizeString: "." and empty segments vanish, ".." removes the segment before
\* it; a ".." with nothing before it is kept only when allowAboveRoot
RECURSIVE ResolveSegs(_, _, _, _)
ResolveSegs(segs, i, stack, allowAboveRoot) ==
    IF i > Len(segs) THEN stack
    ELSE ResolveSegs(segs, i + 1,
            IF segs[i] = "" \/ segs[i] = "." THEN stack
            ELSE IF segs[i] # ".." THEN Append(stack, segs[i])
            ELSE IF Len(stack) > 0 /\ stack[Len(stack)] # ".."
                 THEN SubSeq(stack, 1, Len(stack) - 1)
            ELSE IF allowAboveRoot THEN Append(stack, "..")
            ELSE stack,
            allowAboveRoot)

normalizeString(p, allowAboveRoot) ==
    JoinSegs(ResolveSegs(Split(p, {sep}), 1, <<>>, allowAboveRoot), sep)

\* path.isAbsolute
isAbsolute(p) == Len(p) > 0 /\ Ch(p, 1) = sep

\* path.normalize
normalize(p) ==
    IF Len(p) = 0 THEN "."
    ELSE With(normalizeString(p, ~isAbsolute(p)), LAMBDA body :
         IF body = ""
         THEN (IF isAbsolute(p) THEN sep ELSE IF Ch(p, Len(p)) = sep THEN "./" ELSE ".")
         ELSE (IF isAbsolute(p) THEN sep ELSE "") \o body
              \o (IF Ch(p, Len(p)) = sep THEN sep ELSE ""))

\* path.join(a, b, ...): the non-empty arguments joined by "/", then normalized
join(parts) ==
    With(JoinSegs(NonEmpty(parts), sep), LAMBDA joined :
         IF joined = "" THEN "." ELSE normalize(joined))

\* process.cwd(): path.resolve prefixes it to a relative path
Cwd == "/app"

\* path.resolve(p)
resolve(p) == sep \o normalizeString(IF isAbsolute(p) THEN p ELSE Cwd \o sep \o p, FALSE)

\* index of the last character of p that is not a trailing "/" (0 if there is none)
TrimEnd(p) == Max({0} \cup {i \in 1..Len(p) : Ch(p, i) # sep})

\* index of the last "/" before position e (0 if there is none)
LastSep(p, e) == Max({0} \cup {i \in 1..e : Ch(p, i) = sep})

\* path.basename
basename(p) == With(TrimEnd(p), LAMBDA e : SubSeq(p, LastSep(p, e) + 1, e))

\* the directory part of p, whose last "/" before the base name is at position b
DirPart(p, b) ==
    IF b = 0 THEN "."
    ELSE IF b = 1 THEN sep
    ELSE IF b = 2 /\ isAbsolute(p) THEN "//"
    ELSE SubSeq(p, 1, b - 1)

\* path.dirname
dirname(p) ==
    With(TrimEnd(p), LAMBDA e :
         IF e = 0 THEN (IF Len(p) = 0 THEN "." ELSE sep)
         ELSE DirPart(p, LastSep(p, e)))

(***************************************************************************)
(* Outcomes: a function either returns a value or throws an Error          *)
(***************************************************************************)
Ok(v) == [ok |-> TRUE, value |-> v, error |-> ""]
Throw(msg) == [ok |-> FALSE, value |-> "", error |-> msg]

(***************************************************************************)
(* File utilities                                                          *)
(***************************************************************************)
\* the character class [a-zA-Z0-9._\-]
FileNameChars == LowerSet \cup UpperSet \cup DigitSet \cup {".", "_", "-"}

\* the character class [a-z0-9-]
SkillNameChars == LowerSet \cup DigitSet \cup {"-"}

\* the length limits of the two sanitizers
MaxFileNameLength == 255
MaxSkillNameLength == 255

\* sanitizeFileName with the length test off by one: a name of exactly 255 kept
\* characters is refused
sanitizeFileNameOffByOne(name) ==
    With(Strip(name, FileNameChars), LAMBDA sanitized :
         IF Len(sanitized) = 0
         THEN Throw("Invalid filename - must contain at least one valid character")
         ELSE IF Len(sanitized) >= MaxFileNameLength
         THEN Throw("Filename is too long (max 255 characters)")
         ELSE Ok(sanitized))

sanitizeFileName(name) ==
    With(Strip(name, FileNameChars), LAMBDA sanitized :
         IF Len(sanitized) = 0
         THEN Throw("Invalid filename - must contain at least one valid character")
         ELSE IF Len(sanitized) > MaxFileNameLength
         THEN Throw("Filename is too long (max 255 characters)")
         ELSE Ok(sanitized))

\* segments.map(...) with the "." / ".." test made on the raw segment instead of the
\* sanitized one
RECURSIVE SanitizeSegmentsRawDots(_, _, _)
SanitizeSegmentsRawDots(segments, i, acc) ==
    IF i > Len(segments) THEN Ok(JoinSegs(acc, sep))
    ELSE With(sanitizeFileName(segments[i]), LAMBDA r :
         IF ~r.ok THEN r
         ELSE IF segments[i] = "." \/ segments[i] = ".." THEN Throw("Invalid path segment")
         ELSE SanitizeSegmentsRawDots(segments, i + 1, Append(acc, r.value)))

\* segments.map(...) of sanitizeRelativePath: the sanitized segments joined by the
\* separator, or the error of the first segment whose callback throws
RECURSIVE SanitizeSegments(_, _, _)
SanitizeSegments(segments, i, acc) ==
    IF i > Len(segments) THEN Ok(JoinSegs(acc, sep))
    ELSE With(sanitizeFileName(segments[i]), LAMBDA r :
         IF ~r.ok THEN r
         ELSE IF r.value = "." \/ r.value = ".." THEN Throw("Invalid path segment")
         ELSE SanitizeSegments(segments, i + 1, Append(acc, r.value)))

sanitizeRelativePath(relativePath) ==
    IF relativePath = "" THEN Throw("Invalid path")
    ELSE With(NonEmpty(Split(relativePath, {"/", "\\"})), LAMBDA segments :
         IF Len(segments) = 0 THEN Throw("Invalid path")
         ELSE SanitizeSegments(segments, 1, <<>>))

(***************************************************************************)
(* Security utilities                                                      *)
(***************************************************************************)
\* app.getPath('userData')
UserData == "/ud"

getSkillsDir == join(<<UserData, "skills">>)

AccessDenied == "Invalid path - access denied"

\* the prefix test without the separator after the base
InsideOrThrowPrefixOnly(resolvedPath, resolvedBase) ==
    IF ~StartsWith(resolvedPath, resolvedBase)
    THEN Throw(AccessDenied)
    ELSE Ok(resolvedPath)

\* the last step of validateSkillPath: the prefix test on the resolved strings
InsideOrThrow(resolvedPath, resolvedBase) ==
    IF ~StartsWith(resolvedPath, resolvedBase \o sep) /\ resolvedPath # resolvedBase
    THEN Throw(AccessDenied)
    ELSE Ok(resolvedPath)

\* validateSkillPath with the prefix test made on the joined string before "." and
\* ".." are resolved
validateSkillPathUnresolved(requestedPath, baseDir) ==
    With(IF isAbsolute(requestedPath) THEN requestedPath
         ELSE baseDir \o sep \o requestedPath, LAMBDA fullPath :
         IF ~StartsWith(fullPath, baseDir \o sep) /\ fullPath # baseDir
         THEN Throw(AccessDenied)
         ELSE Ok(resolve(fullPath)))

validateSkillPath(requestedPath, baseDir) ==
    With(normalize(requestedPath), LAMBDA normalized :
         InsideOrThrow(resolve(IF isAbsolute(normalized) THEN normalized
                               ELSE join(<<baseDir, normalized>>)),
                       resolve(baseDir)))

\* sanitizeSkillName with the reserved-name test made on the raw input
sanitizeSkillNameRawReserved(name) ==
    With(Strip(toLowerCase(name), SkillNameChars), LAMBDA sanitized :
         IF Len(sanitized) = 0
         THEN Throw("Skill name must contain at least one valid character (lowercase letters, numbers, or hyphens)")
         ELSE IF Len(sanitized) > MaxSkillNameLength
         THEN Throw("Skill name is too long (max 255 characters)")
         ELSE IF name = "skill" \/ name = ""
         THEN Throw("Invalid skill name")
         ELSE Ok(sanitized))

sanitizeSkillName(name) ==
    With(Strip(toLowerCase(name), SkillNameChars), LAMBDA sanitized :
         IF Len(sanitized) = 0
         THEN Throw("Skill name must contain at least one valid character (lowercase letters, numbers, or hyphens)")
         ELSE IF Len(sanitized) > MaxSkillNameLength
         THEN Throw("Skill name is too long (max 255 characters)")
         ELSE IF sanitized = "skill" \/ sanitized = ""
         THEN Throw("Invalid skill name")
         ELSE Ok(sanitized))

(***************************************************************************)
(* The disk and the fs primitives the handlers call                        *)
(***************************************************************************)
Dir == [kind |-> "dir", content |-> ""]
File(content) == [kind |-> "file", content |-> content]

\* fsSync.existsSync
existsSync(f, p) == p \in DOMAIN f

\* p is d or lies below d
Within(p, d) == p = d \/ StartsWith(p, IF d = sep THEN sep ELSE d \o sep)

\* the first k segments of segs as an absolute path
Prefix(segs, k) == sep \o JoinSegs(SubSeq(segs, 1, k), sep)

\* p and every directory above it, for a canonical absolute path p
AncestorsOrSelf(p) ==
    With(NonEmpty(Split(p, {sep})), LAMBDA segs : {Prefix(segs, k) : k \in 0..Len(segs)})

\* the outcome of an fs call: the disk afterwards, or the error thrown and the disk
\* as it was
Done(f) == [ok |-> TRUE, fs |-> f, error |-> ""]
Raise(f, code) == [ok |-> FALSE, fs |-> f, error |-> code]

\* the disk f with the directories of chain that it lacks
WithDirs(f, chain) ==
    IF \E q \in chain : q \in DOMAIN f /\ f[q].kind = "file"
    THEN Raise(f, "EEXIST")
    ELSE Done([q \in DOMAIN f \cup chain |-> IF q \in DOMAIN f THEN f[q] ELSE Dir])

\* fs.mkdir(p, { recursive: true })
mkdir(f, p) == WithDirs(f, AncestorsOrSelf(p))

\* the write of writeFile, once the parent directory d of p is known
WriteIn(f, p, d, content) ==
    IF d \notin DOMAIN f THEN Raise(f, "ENOENT")
    ELSE IF f[d].kind # "dir" THEN Raise(f, "ENOTDIR")
    ELSE IF p \in DOMAIN f /\ f[p].kind = "dir" THEN Raise(f, "EISDIR")
    ELSE Done([q \in DOMAIN f \cup {p} |-> IF q = p THEN File(content) ELSE f[q]])

\* fs.writeFile(p, content)
writeFile(f, p, content) == WriteIn(f, p, dirname(p), content)

\* fs.rm(p, { recursive: true, force: true })
rm(f, p) == Done([q \in {x \in DOMAIN f : ~Within(x, p)} |-> f[q]])

\* where a node q at or below oldPath ends up when oldPath becomes newPath
Moved(q, oldPath, newPath) == newPath \o SubSeq(q, Len(oldPath) + 1, Len(q))

\* the disk after the subtree at oldPath has moved to newPath
Relocate(f, oldPath, newPath) ==
    [t \in {q \in DOMAIN f : ~Within(q, oldPath) /\ q # newPath}
           \cup {Moved(q, oldPath, newPath) : q \in {x \in DOMAIN f : Within(x, oldPath)}} |->
        IF t \in DOMAIN f /\ ~Within(t, oldPath) /\ t # newPath
        THEN f[t]
        ELSE f[CHOOSE q \in DOMAIN f : Within(q, oldPath) /\ Moved(q, oldPath, newPath) = t]]

\* the rename of fs.rename, once the parent directory d of newPath is known
RenameIn(f, oldPath, newPath, d) ==
    IF oldPath \notin DOMAIN f THEN Raise(f, "ENOENT")
    ELSE IF d \notin DOMAIN f THEN Raise(f, "ENOENT")
    ELSE IF f[d].kind # "dir" THEN Raise(f, "ENOTDIR")
    ELSE IF newPath = oldPath THEN Done(f)
    ELSE IF Within(newPath, oldPath) THEN Raise(f, "EINVAL")
    ELSE IF newPath \in DOMAIN f /\ f[newPath].kind # f[oldPath].kind
    THEN Raise(f, IF f[newPath].kind = "dir" THEN "EISDIR" ELSE "ENOTDIR")
    ELSE IF newPath \in DOMAIN f /\ \E q \in DOMAIN f : q # newPath /\ Within(q, newPath)
    THEN Raise(f, "ENOTEMPTY")
    ELSE Done(Relocate(f, oldPath, newPath))

\* fs.rename(oldPath, newPath): the node moves with everything below it
rename(f, oldPath, newPath) == RenameIn(f, oldPath, newPath, dirname(newPath))

\* fs.readFile(p, 'utf-8')
readFile(f, p) ==
    IF p \notin DOMAIN f THEN Throw("ENOENT")
    ELSE IF f[p].kind = "dir" THEN Throw("EISDIR")
    ELSE Ok(f[p].content)

\* printable ASCII characters in code order (the three quote characters left
\* out), and the place of c among them
Ascii ==
    " !#$%&()*+,-./0123456789:;<=>?@ABCDEFGHIJKLMNOPQRSTUVWXYZ[\\]^_abcdefghijklmnopqrstuvwxyz{|}~"
IndexIn(str, c) == CHOOSE i \in 1..Len(str) : Ch(str, i) = c
CodeOf(c) == IndexIn(Ascii, c)

\* the first place where a and b differ, Len + 1 of the shorter when one is a prefix
\* of the other, 0 when they are equal
FirstDifference(a, b) ==
    With({i \in 1..(IF Len(a) < Len(b) THEN Len(a) ELSE Len(b)) : Ch(a, i) # Ch(b, i)},
         LAMBDA D :
         IF D # {} THEN CHOOSE i \in D : \A j \in D : i <= j
         ELSE IF Len(a) = Len(b) THEN 0
         ELSE (IF Len(a) < Len(b) THEN Len(a) ELSE Len(b)) + 1)

\* a before b in code order
CodeLess(a, b) ==
    With(FirstDifference(a, b), LAMBDA i :
         /\ i # 0
         /\ \/ i > Len(a)
            \/ i <= Len(b) /\ CodeOf(Ch(a, i)) < CodeOf(Ch(b, i)))

\* the elements of S in the order of Less, a strict total order on S
Ranked(S, Less(_, _)) ==
    [k \in 1..Cardinality(S) |->
        CHOOSE x \in S : Cardinality({y \in S : Less(y, x)}) = k - 1]

\* the orders in which the operating system may hand out the entries of a directory
DirOrders == {"ascending", "descending"}

\* the names of the entries of directory d
ChildNames(f, d) ==
    {SubSeq(p, Len(d) + 2, Len(p)) :
        p \in {q \in DOMAIN f : /\ q # d
                                /\ Within(q, d)
                                /\ \A i \in (Len(d) + 2)..Len(q) : Ch(q, i) # sep}}

\* where the entry of directory d called name is
ChildPath(d, name) == (IF d = sep THEN "" ELSE d) \o sep \o name

\* fs.readdir(d, { withFileTypes: true }), the entries handed out in `order`
readdir(f, d, order) ==
    IF d \notin DOMAIN f THEN Throw("ENOENT")
    ELSE IF f[d].kind # "dir" THEN Throw("ENOTDIR")
    ELSE Ok([k \in 1..Cardinality(ChildNames(f, d)) |->
               With(Ranked(ChildNames(f, d),
                           LAMBDA a, b : IF order = "ascending" THEN CodeLess(a, b)
                                         ELSE CodeLess(b, a))[k],
                    LAMBDA name :
                    [name |-> name, isDirectory |-> f[ChildPath(d, name)].kind = "dir"])])

(***************************************************************************)
(* Input validation schemas (zod)                                          *)
(***************************************************************************)
MaxSchemaNameLength == 255

\* z.string().min(1)
NonEmptyString(s) == Len(s) >= 1

\* z.string().min(1).max(255)
NameString(s) == Len(s) >= 1 /\ Len(s) <= MaxSchemaNameLength

(***************************************************************************)
(* IPC handlers: each maps the disk and the request payload to the disk    *)
(* afterwards and the value returned to the renderer                       *)
(***************************************************************************)
Reply(f, r) == [fs |-> f, res |-> r]
Failure(msg) == [success |-> FALSE, error |-> msg]

\* 'create-skill' with the bundle directory named by the name as given
createSkillRawName(f, skillData) ==
    IF ~NameString(skillData.name) THEN Reply(f, Failure("Failed to create skill"))
    ELSE
    With(sanitizeSkillName(skillData.name), LAMBDA sanitizedName :
    IF ~sanitizedName.ok THEN Reply(f, Failure("Failed to create skill"))
    ELSE
    With(join(<<getSkillsDir, skillData.name>>), LAMBDA skillDir :
    IF ~validateSkillPath(skillDir, getSkillsDir).ok
    THEN Reply(f, Failure("Failed to create skill"))
    ELSE
    With(mkdir(f, skillDir), LAMBDA m :
    IF ~m.ok THEN Reply(f, Failure("Failed to create skill"))
    ELSE
    With(writeFile(m.fs, join(<<skillDir, "SKILL.md">>), skillData.content), LAMBDA w :
    IF ~w.ok THEN Reply(m.fs, Failure("Failed to create skill"))
    ELSE Reply(w.fs, [success |-> TRUE, path |-> skillDir])))))

\* 'create-skill' that clears the bundle directory before it writes the manifest
createSkillFresh(f, skillData) ==
    IF ~NameString(skillData.name) \/ ~sanitizeSkillName(skillData.name).ok
    THEN Reply(f, Failure("Failed to create skill"))
    ELSE
    With(join(<<getSkillsDir, sanitizeSkillName(skillData.name).value>>), LAMBDA skillDir :
    With(mkdir(rm(f, skillDir).fs, skillDir), LAMBDA m :
    IF ~m.ok THEN Reply(f, Failure("Failed to create skill"))
    ELSE
    With(writeFile(m.fs, join(<<skillDir, "SKILL.md">>), skillData.content), LAMBDA w :
    IF ~w.ok THEN Reply(m.fs, Failure("Failed to create skill"))
    ELSE Reply(w.fs, [success |-> TRUE, path |-> skillDir]))))

\* ipcMain.handle('create-skill')
createSkill(f, skillData) ==
    IF ~NameString(skillData.name) THEN Reply(f, Failure("Failed to create skill"))
    ELSE
    With(sanitizeSkillName(skillData.name), LAMBDA sanitizedName :
    IF ~sanitizedName.ok THEN Reply(f, Failure("Failed to create skill"))
    ELSE
    With(join(<<getSkillsDir, sanitizedName.value>>), LAMBDA skillDir :
    IF ~validateSkillPath(skillDir, getSkillsDir).ok
    THEN Reply(f, Failure("Failed to create skill"))
    ELSE
    With(mkdir(f, skillDir), LAMBDA m :
    IF ~m.ok THEN Reply(f, Failure("Failed to create skill"))
    ELSE
    With(writeFile(m.fs, join(<<skillDir, "SKILL.md">>), skillData.content), LAMBDA w :
    IF ~w.ok THEN Reply(m.fs, Failure("Failed to create skill"))
    ELSE Reply(w.fs, [success |-> TRUE, path |-> skillDir])))))

\* 'save-skill' with the path validated against the user-data directory
saveSkillInUserData(f, data) ==
    IF ~NonEmptyString(data.skillPath) THEN Reply(f, Failure("Failed to save skill"))
    ELSE
    With(validateSkillPath(data.skillPath, UserData), LAMBDA validatedPath :
    IF ~validatedPath.ok THEN Reply(f, Failure("Failed to save skill"))
    ELSE
    With(writeFile(f, validatedPath.value, data.content), LAMBDA w :
    IF ~w.ok THEN Reply(f, Failure("Failed to save skill"))
    ELSE Reply(w.fs, [success |-> TRUE])))

\* ipcMain.handle('save-skill')
saveSkill(f, data) ==
    IF ~NonEmptyString(data.skillPath) THEN Reply(f, Failure("Failed to save skill"))
    ELSE
    With(validateSkillPath(data.skillPath, getSkillsDir), LAMBDA validatedPath :
    IF ~validatedPath.ok THEN Reply(f, Failure("Failed to save skill"))
    ELSE
    With(writeFile(f, validatedPath.value, data.content), LAMBDA w :
    IF ~w.ok THEN Reply(f, Failure("Failed to save skill"))
    ELSE Reply(w.fs, [success |-> TRUE])))

\* 'delete-skill' without the test that the directory exists
deleteSkillUnchecked(f, data) ==
    IF ~NonEmptyString(data.skillPath) THEN Reply(f, Failure("Failed to delete skill"))
    ELSE
    With(validateSkillPath(data.skillPath, getSkillsDir), LAMBDA validatedPath :
    IF ~validatedPath.ok THEN Reply(f, Failure("Failed to delete skill"))
    ELSE Reply(rm(f, dirname(validatedPath.value)).fs, [success |-> TRUE]))

\* ipcMain.handle('delete-skill')
deleteSkill(f, data) ==
    IF ~NonEmptyString(data.skillPath) THEN Reply(f, Failure("Failed to delete skill"))
    ELSE
    With(validateSkillPath(data.skillPath, getSkillsDir), LAMBDA validatedPath :
    IF ~validatedPath.ok THEN Reply(f, Failure("Failed to delete skill"))
    ELSE
    With(dirname(validatedPath.value), LAMBDA skillDir :
    IF ~existsSync(f, skillDir) THEN Reply(f, Failure("Skill directory does not exist"))
    ELSE Reply(rm(f, skillDir).fs, [success |-> TRUE])))

\* ipcMain.handle('create-file')
createFile(f, data) ==
    IF ~(NonEmptyString(data.skillPath) /\ NonEmptyString(data.filePath))
    THEN Reply(f, Failure("Failed to create file"))
    ELSE
    With(validateSkillPath(data.skillPath, getSkillsDir), LAMBDA skillDirPath :
    With(sanitizeFileName(basename(data.filePath)), LAMBDA sanitizedFileName :
    IF ~skillDirPath.ok \/ ~sanitizedFileName.ok
    THEN Reply(f, Failure("Failed to create file"))
    ELSE
    With(dirname(skillDirPath.value), LAMBDA skillDir :
    With(validateSkillPath(join(<<skillDir, dirname(data.filePath),
                                  sanitizedFileName.value>>), skillDir),
         LAMBDA validatedFilePath :
    IF ~validatedFilePath.ok THEN Reply(f, Failure("Failed to create file"))
    ELSE
    With(mkdir(f, dirname(validatedFilePath.value)), LAMBDA m :
    IF ~m.ok THEN Reply(f, Failure("Failed to create file"))
    ELSE
    With(writeFile(m.fs, validatedFilePath.value, data.content), LAMBDA w :
    IF ~w.ok THEN Reply(m.fs, Failure("Failed to create file"))
    ELSE Reply(w.fs, [success |-> TRUE, path |-> data.filePath])))))))

\* ipcMain.handle('create-folder')
createFolder(f, data) ==
    IF ~(NonEmptyString(data.skillPath) /\ NonEmptyString(data.folderPath))
    THEN Reply(f, Failure("Failed to create folder"))
    ELSE
    With(validateSkillPath(data.skillPath, getSkillsDir), LAMBDA skillDirPath :
    With(sanitizeFileName(basename(data.folderPath)), LAMBDA sanitizedFolderName :
    IF ~skillDirPath.ok \/ ~sanitizedFolderName.ok
    THEN Reply(f, Failure("Failed to create folder"))
    ELSE
    With(dirname(skillDirPath.value), LAMBDA skillDir :
    With(validateSkillPath(join(<<skillDir, dirname(data.folderPath),
                                  sanitizedFolderName.value>>), skillDir),
         LAMBDA validatedFolderPath :
    IF ~validatedFolderPath.ok THEN Reply(f, Failure("Failed to create folder"))
    ELSE
    With(mkdir(f, validatedFolderPath.value), LAMBDA m :
    IF ~m.ok THEN Reply(f, Failure("Failed to create folder"))
    ELSE Reply(m.fs, [success |-> TRUE, path |-> data.folderPath]))))))

\* ipcMain.handle('delete-file-or-folder')
deleteFileOrFolder(f, data) ==
    IF ~(NonEmptyString(data.skillPath) /\ NonEmptyString(data.targetPath))
    THEN Reply(f, Failure("Failed to delete file or folder"))
    ELSE
    With(validateSkillPath(data.skillPath, getSkillsDir), LAMBDA skillDirPath :
    IF ~skillDirPath.ok THEN Reply(f, Failure("Failed to delete file or folder"))
    ELSE
    With(dirname(skillDirPath.value), LAMBDA skillDir :
    With(validateSkillPath(join(<<skillDir, data.targetPath>>), skillDir),
         LAMBDA validatedPath :
    IF ~validatedPath.ok THEN Reply(f, Failure("Failed to delete file or folder"))
    ELSE IF basename(validatedPath.value) = "SKILL.md"
    THEN Reply(f, Failure("Cannot delete SKILL.md - it is required"))
    ELSE IF ~existsSync(f, validatedPath.value)
    THEN Reply(f, Failure("File or folder does not exist"))
    ELSE Reply(rm(f, validatedPath.value).fs, [success |-> TRUE]))))

\* 'rename-file-or-folder' with the two existence tests in the other order
renameToNewFirst(f, skillDir, validatedOldPath, sanitizedNewName) ==
    With(validateSkillPath(join(<<dirname(validatedOldPath), sanitizedNewName>>), skillDir),
         LAMBDA validatedNewPath :
    IF ~validatedNewPath.ok THEN Reply(f, Failure("Failed to rename file or folder"))
    ELSE IF existsSync(f, validatedNewPath.value)
    THEN Reply(f, Failure("A file or folder with that name already exists"))
    ELSE IF ~existsSync(f, validatedOldPath)
    THEN Reply(f, Failure("File or folder does not exist"))
    ELSE
    With(rename(f, validatedOldPath, validatedNewPath.value), LAMBDA r :
    IF ~r.ok THEN Reply(f, Failure("Failed to rename file or folder"))
    ELSE Reply(r.fs, [success |-> TRUE])))

\* 'rename-file-or-folder' with the new path built in the bundle root instead of the
\* directory of the old path
renameToBundleRoot(f, skillDir, validatedOldPath, sanitizedNewName) ==
    With(validateSkillPath(join(<<skillDir, sanitizedNewName>>), skillDir),
         LAMBDA validatedNewPath :
    IF ~validatedNewPath.ok THEN Reply(f, Failure("Failed to rename file or folder"))
    ELSE IF ~existsSync(f, validatedOldPath)
    THEN Reply(f, Failure("File or folder does not exist"))
    ELSE IF existsSync(f, validatedNewPath.value)
    THEN Reply(f, Failure("A file or folder with that name already exists"))
    ELSE
    With(rename(f, validatedOldPath, validatedNewPath.value), LAMBDA r :
    IF ~r.ok THEN Reply(f, Failure("Failed to rename file or folder"))
    ELSE Reply(r.fs, [success |-> TRUE])))

\* 'rename-file-or-folder' from "Build new path" on: the old path is validated and
\* is not the manifest, the new name is sanitized
renameTo(f, skillDir, validatedOldPath, sanitizedNewName) ==
    With(validateSkillPath(join(<<dirname(validatedOldPath), sanitizedNewName>>), skillDir),
         LAMBDA validatedNewPath :
    IF ~validatedNewPath.ok THEN Reply(f, Failure("Failed to rename file or folder"))
    ELSE IF ~existsSync(f, validatedOldPath)
    THEN Reply(f, Failure("File or folder does not exist"))
    ELSE IF existsSync(f, validatedNewPath.value)
    THEN Reply(f, Failure("A file or folder with that name already exists"))
    ELSE
    With(rename(f, validatedOldPath, validatedNewPath.value), LAMBDA r :
    IF ~r.ok THEN Reply(f, Failure("Failed to rename file or folder"))
    ELSE Reply(r.fs, [success |-> TRUE])))

\* 'rename-file-or-folder' without the test that refuses the manifest
renameFileOrFolderUnprotected(f, data) ==
    IF ~(NonEmptyString(data.skillPath) /\ NonEmptyString(data.oldPath)
         /\ NameString(data.newName))
    THEN Reply(f, Failure("Failed to rename file or folder"))
    ELSE
    With(validateSkillPath(data.skillPath, getSkillsDir), LAMBDA skillDirPath :
    IF ~skillDirPath.ok THEN Reply(f, Failure("Failed to rename file or folder"))
    ELSE
    With(dirname(skillDirPath.value), LAMBDA skillDir :
    With(validateSkillPath(join(<<skillDir, data.oldPath>>), skillDir),
         LAMBDA validatedOldPath :
    With(sanitizeFileName(data.newName), LAMBDA sanitizedNewName :
    IF ~validatedOldPath.ok \/ ~sanitizedNewName.ok
    THEN Reply(f, Failure("Failed to rename file or folder"))
    ELSE renameTo(f, skillDir, validatedOldPath.value, sanitizedNewName.value)))))

\* ipcMain.handle('rename-file-or-folder')
renameFileOrFolder(f, data) ==
    IF ~(NonEmptyString(data.skillPath) /\ NonEmptyString(data.oldPath)
         /\ NameString(data.newName))
    THEN Reply(f, Failure("Failed to rename file or folder"))
    ELSE
    With(validateSkillPath(data.skillPath, getSkillsDir), LAMBDA skillDirPath :
    IF ~skillDirPath.ok THEN Reply(f, Failure("Failed to rename file or folder"))
    ELSE
    With(dirname(skillDirPath.value), LAMBDA skillDir :
    With(validateSkillPath(join(<<skillDir, data.oldPath>>), skillDir),
         LAMBDA validatedOldPath :
    With(sanitizeFileName(data.newName), LAMBDA sanitizedNewName :
    IF ~validatedOldPath.ok \/ ~sanitizedNewName.ok
    THEN Reply(f, Failure("Failed to rename file or folder"))
    ELSE IF basename(validatedOldPath.value) = "SKILL.md"
    THEN Reply(f, Failure("Cannot rename SKILL.md"))
    ELSE renameTo(f, skillDir, validatedOldPath.value, sanitizedNewName.value)))))

\* 'move-file' without the mkdir of the target directory
moveToExistingDir(f, validatedOldPath, validatedNewPath) ==
    IF ~existsSync(f, validatedOldPath)
    THEN Reply(f, Failure("Source file does not exist"))
    ELSE IF existsSync(f, validatedNewPath)
    THEN Reply(f, Failure("A file with that name already exists in the target folder"))
    ELSE
    With(rename(f, validatedOldPath, validatedNewPath), LAMBDA r :
    IF ~r.ok THEN Reply(f, Failure("Failed to move file"))
    ELSE Reply(r.fs, [success |-> TRUE]))

\* 'move-file' from "Check if old path exists" on: both paths are validated and the
\* old one is not the manifest
moveTo(f, validatedOldPath, validatedNewPath) ==
    IF ~existsSync(f, validatedOldPath)
    THEN Reply(f, Failure("Source file does not exist"))
    ELSE IF existsSync(f, validatedNewPath)
    THEN Reply(f, Failure("A file with that name already exists in the target folder"))
    ELSE
    With(mkdir(f, dirname(validatedNewPath)), LAMBDA m :
    IF ~m.ok THEN Reply(f, Failure("Failed to move file"))
    ELSE
    With(rename(m.fs, validatedOldPath, validatedNewPath), LAMBDA r :
    IF ~r.ok THEN Reply(m.fs, Failure("Failed to move file"))
    ELSE Reply(r.fs, [success |-> TRUE])))

\* ipcMain.handle('move-file')
moveFile(f, data) ==
    IF ~(NonEmptyString(data.skillPath) /\ NonEmptyString(data.oldPath)
         /\ NonEmptyString(data.newPath))
    THEN Reply(f, Failure("Failed to move file"))
    ELSE
    With(validateSkillPath(data.skillPath, getSkillsDir), LAMBDA skillDirPath :
    IF ~skillDirPath.ok THEN Reply(f, Failure("Failed to move file"))
    ELSE
    With(dirname(skillDirPath.value), LAMBDA skillDir :
    With(validateSkillPath(join(<<skillDir, data.oldPath>>), skillDir),
         LAMBDA validatedOldPath :
    With(validateSkillPath(join(<<skillDir, data.newPath>>), skillDir),
         LAMBDA validatedNewPath :
    IF ~validatedOldPath.ok \/ ~validatedNewPath.ok
    THEN Reply(f, Failure("Failed to move file"))
    ELSE IF basename(validatedOldPath.value) = "SKILL.md"
    THEN Reply(f, Failure("Cannot move SKILL.md"))
    ELSE moveTo(f, validatedOldPath.value, validatedNewPath.value)))))

\* the try block of the per-file loop of 'upload-files' for one file: the disk
\* afterwards and the name pushed to uploadedFiles (none when the file throws)
uploadOne(f, file, validatedTargetPath, skillDir) ==
    With(sanitizeRelativePath(file.name), LAMBDA sanitizedRelative :
    IF ~sanitizedRelative.ok THEN [fs |-> f, pushed |-> <<>>]
    ELSE
    With(validateSkillPath(join(<<validatedTargetPath, sanitizedRelative.value>>), skillDir),
         LAMBDA validatedDestination :
    IF ~validatedDestination.ok THEN [fs |-> f, pushed |-> <<>>]
    ELSE
    With(mkdir(f, dirname(validatedDestination.value)), LAMBDA m :
    IF ~m.ok THEN [fs |-> f, pushed |-> <<>>]
    ELSE
    With(writeFile(m.fs, validatedDestination.value, file.data), LAMBDA w :
    IF ~w.ok THEN [fs |-> m.fs, pushed |-> <<>>]
    ELSE [fs |-> w.fs,
          pushed |-> <<JoinSegs(Split(sanitizedRelative.value, {sep}), "/")>>]))))

\* the per-file loop without the try/catch around each file: the first file that
\* throws ends the loop
RECURSIVE uploadEachUntilFailure(_, _, _, _, _, _)
uploadEachUntilFailure(f, files, i, validatedTargetPath, skillDir, uploadedFiles) ==
    IF i > Len(files) THEN [fs |-> f, uploadedFiles |-> uploadedFiles]
    ELSE With(uploadOne(f, files[i], validatedTargetPath, skillDir), LAMBDA u :
         IF u.pushed = <<>> THEN [fs |-> u.fs, uploadedFiles |-> uploadedFiles]
         ELSE uploadEachUntilFailure(u.fs, files, i + 1, validatedTargetPath, skillDir,
                                     uploadedFiles \o u.pushed))

\* the per-file loop of 'upload-files' from file i on
RECURSIVE uploadEach(_, _, _, _, _, _)
uploadEach(f, files, i, validatedTargetPath, skillDir, uploadedFiles) ==
    IF i > Len(files) THEN [fs |-> f, uploadedFiles |-> uploadedFiles]
    ELSE With(uploadOne(f, files[i], validatedTargetPath, skillDir), LAMBDA u :
         uploadEach(u.fs, files, i + 1, validatedTargetPath, skillDir,
                    uploadedFiles \o u.pushed))

\* ipcMain.handle('upload-files')
uploadFiles(f, data) ==
    With(validateSkillPath(data.skillPath, getSkillsDir), LAMBDA skillDirPath :
    IF ~skillDirPath.ok THEN Reply(f, Failure("Failed to upload files"))
    ELSE
    With(dirname(skillDirPath.value), LAMBDA skillDir :
    With(validateSkillPath(IF data.targetFolder # ""
                           THEN join(<<skillDir, data.targetFolder>>) ELSE skillDir,
                           skillDir),
         LAMBDA validatedTargetPath :
    IF ~validatedTargetPath.ok THEN Reply(f, Failure("Failed to upload files"))
    ELSE
    With(mkdir(f, validatedTargetPath.value), LAMBDA m :
    IF ~m.ok THEN Reply(f, Failure("Failed to upload files"))
    ELSE
    With(uploadEach(m.fs, data.files, 1, validatedTargetPath.value, skillDir, <<>>),
         LAMBDA u :
    Reply(u.fs, [success |-> TRUE, uploadedFiles |-> u.uploadedFiles,
                 count |-> Len(u.uploadedFiles)]))))))

\* the characters \s matches, and those among them that end a line
WhiteSpace == {" ", "\t", "\n", "\r"}
LineTerminators == {"\n", "\r"}

\* s without the white space at its end
TrimRight(s) ==
    SubSeq(s, 1, Max({0} \cup {i \in 1..Len(s) : Ch(s, i) \notin WhiteSpace}))

\* where /^description:/m matches in content
DescriptionKeys(content) ==
    {i \in 1..(Len(content) - 11) :
        /\ i = 1 \/ Ch(content, i - 1) \in LineTerminators
        /\ SubSeq(content, i, i + 11) = "description:"}

\* what /^description:\s*(.+?)(?:\n|$)/m captures, trimmed, for the key at i: from
\* the first character that is not white space to the end of its line; the empty
\* string when only blanks follow that the capture can take; no match otherwise
DescriptionAt(content, i) ==
    With({j \in (i + 12)..Len(content) : Ch(content, j) \notin WhiteSpace}, LAMBDA rest :
    IF rest # {}
    THEN With(CHOOSE j \in rest : \A k \in rest : j <= k, LAMBDA j :
         Ok(TrimRight(SubSeq(content, j,
                Max({j} \cup {e \in j..Len(content) :
                        \A k \in j..e : Ch(content, k) \notin LineTerminators})))))
    ELSE IF \E j \in (i + 12)..Len(content) : Ch(content, j) \notin LineTerminators
    THEN Ok("")
    ELSE Throw("no match"))

\* the description list-skills reports for a manifest: the first match, cut to 200
\* characters, or the placeholder
Description(content) ==
    With({i \in DescriptionKeys(content) : DescriptionAt(content, i).ok}, LAMBDA keys :
    IF keys = {} THEN "No description"
    ELSE With(DescriptionAt(content, CHOOSE i \in keys : \A k \in keys : i <= k).value,
              LAMBDA description :
              SubSeq(description, 1, IF Len(description) < 200 THEN Len(description) ELSE 200)))

\* the callback of entries.map(...) in 'list-skills' does not throw for the directory
\* called skillName
Listable(f, skillsDir, skillName) ==
    /\ sanitizeSkillName(skillName).ok
    /\ validateSkillPath(join(<<skillsDir, skillName, "SKILL.md">>), skillsDir).ok
    /\ readFile(f, join(<<skillsDir, skillName, "SKILL.md">>)).ok

\* what the callback returns for a directory it does not throw for
SkillEntry(f, skillsDir, skillName) ==
    [name |-> skillName,
     path |-> join(<<skillsDir, skillName, "SKILL.md">>),
     description |-> Description(readFile(f, join(<<skillsDir, skillName, "SKILL.md">>)).value)]

\* 'list-skills' with one try/catch around the whole list
listEntriesTogether(f, skillsDir, entries) ==
    With(SelectSeq(entries, LAMBDA entry : entry.isDirectory), LAMBDA dirs :
    IF \E k \in 1..Len(dirs) : ~Listable(f, skillsDir, dirs[k].name) THEN Reply(f, <<>>)
    ELSE Reply(f, [k \in 1..Len(dirs) |-> SkillEntry(f, skillsDir, dirs[k].name)]))

\* 'list-skills' once the entries of the library root are read
listEntries(f, skillsDir, entries) ==
    With(SelectSeq(entries, LAMBDA entry :
                   entry.isDirectory /\ Listable(f, skillsDir, entry.name)),
         LAMBDA kept :
         Reply(f, [k \in 1..Len(kept) |-> SkillEntry(f, skillsDir, kept[k].name)]))

\* ipcMain.handle('list-skills'), the library root read in `order`
listSkills(f, order) ==
    With(mkdir(f, getSkillsDir), LAMBDA m :
    IF ~m.ok THEN Reply(f, <<>>)
    ELSE
    With(readdir(m.fs, getSkillsDir, order), LAMBDA entries :
    IF ~entries.ok THEN Reply(m.fs, <<>>)
    ELSE listEntries(m.fs, getSkillsDir, entries.value)))

\* the import branch without the search for a free name
importNameFirst(f, skillsDir, sanitizedName, candidateName, suffix) == sanitizedName

\* the while loop of the import branch of 'load-skill': the first of sanitizedName,
\* sanitizedName-1, sanitizedName-2, ... whose directory holds no SKILL.md
RECURSIVE importName(_, _, _, _, _)
importName(f, skillsDir, sanitizedName, candidateName, suffix) ==
    IF existsSync(f, join(<<skillsDir, candidateName, "SKILL.md">>))
    THEN importName(f, skillsDir, sanitizedName,
                    sanitizedName \o "-" \o ToString(suffix), suffix + 1)
    ELSE candidateName

\* the import branch of 'load-skill' from the read of the external file on
importSkill(f, skillsDir, resolvedPath, now) ==
    With(readFile(f, resolvedPath), LAMBDA content :
    IF ~content.ok THEN Reply(f, Failure(content.error))
    ELSE
    With(sanitizeSkillName(basename(dirname(resolvedPath))), LAMBDA named :
    With(IF named.ok THEN named.value
         ELSE sanitizeSkillName("imported-skill-" \o now).value, LAMBDA sanitizedName :
    With(importName(f, skillsDir, sanitizedName, sanitizedName, 1), LAMBDA candidateName :
    With(mkdir(f, join(<<skillsDir, candidateName>>)), LAMBDA m :
    IF ~m.ok THEN Reply(f, Failure(m.error))
    ELSE
    With(writeFile(m.fs, join(<<skillsDir, candidateName, "SKILL.md">>), content.value),
         LAMBDA w :
    IF ~w.ok THEN Reply(m.fs, Failure(w.error))
    ELSE Reply(w.fs, [success |-> TRUE, content |-> content.value,
                      path |-> join(<<skillsDir, candidateName, "SKILL.md">>),
                      imported |-> TRUE, skillName |-> candidateName])))))))

\* the catch block of 'load-skill' without the test of the base name
loadExternalAnyName(f, skillsDir, skillPath, now) ==
    IF ~existsSync(f, resolve(skillPath)) THEN Reply(f, Failure("Skill file does not exist"))
    ELSE importSkill(f, skillsDir, resolve(skillPath), now)

\* the catch block of the inner try of 'load-skill', entered with the access-denied
\* error
loadExternal(f, skillsDir, skillPath, now) ==
    With(resolve(skillPath), LAMBDA resolvedPath :
    IF ~existsSync(f, resolvedPath) THEN Reply(f, Failure("Skill file does not exist"))
    ELSE IF toLowerCase(basename(resolvedPath)) # "skill.md"
    THEN Reply(f, Failure("Only SKILL.md files can be imported"))
    ELSE importSkill(f, skillsDir, resolvedPath, now))

\* ipcMain.handle('load-skill'); now is the text of Date.now()
loadSkill(f, skillPath, now) ==
    With(mkdir(f, getSkillsDir), LAMBDA m :
    IF ~m.ok THEN Reply(f, Failure(m.error))
    ELSE
    With(validateSkillPath(skillPath, getSkillsDir), LAMBDA validatedPath :
    IF ~validatedPath.ok THEN loadExternal(m.fs, getSkillsDir, skillPath, now)
    ELSE IF ~existsSync(m.fs, validatedPath.value)
    THEN Reply(m.fs, Failure("Skill file does not exist"))
    ELSE
    With(readFile(m.fs, validatedPath.value), LAMBDA content :
    IF ~content.ok THEN Reply(m.fs, Failure(content.error))
    ELSE Reply(m.fs, [success |-> TRUE, content |-> content.value,
                      path |-> validatedPath.value]))))

\* path.extname of a file name: from its last dot on, nothing when it has no dot,
\* when its only dot comes first, or when it is ".."
extname(name) ==
    With({i \in 1..Len(name) : Ch(name, i) = "."}, LAMBDA dots :
    IF dots = {} \/ Max(dots) = 1 \/ name = ".." THEN ""
    ELSE SubSeq(name, Max(dots), Len(name)))

EDITABLE_EXTENSIONS ==
    {".md", ".txt", ".js", ".py", ".json", ".html", ".css", ".yaml", ".yml",
     ".sh", ".bash", ".lua", ".rb", ".go", ".rs", ".ts", ".tsx", ".jsx"}

isEditableFile(filePath) == toLowerCase(extname(basename(filePath))) \in EDITABLE_EXTENSIONS

getFileType(filePath) ==
    With(toLowerCase(extname(basename(filePath))), LAMBDA ext :
    IF ext \in {".jpg", ".jpeg", ".png", ".gif", ".webp", ".svg"} THEN "image"
    ELSE IF ext \in {".pdf", ".doc", ".docx", ".xls", ".xlsx"} THEN "document"
    ELSE IF ext \in {".mp4", ".webm", ".mov", ".avi"} THEN "video"
    ELSE IF ext \in {".mp3", ".wav", ".flac"} THEN "audio"
    ELSE IF isEditableFile(filePath) THEN "text"
    ELSE "binary")

\* stats.size of a node: the length of its content, or the size it carries when its
\* content is too long to be written out
SizeOf(node) == IF "size" \in DOMAIN node THEN node.size ELSE Len(node.content)

\* a file of `size` bytes whose content `content` stands for
Sized(content, size) == [kind |-> "file", content |-> content, size |-> size]

MAX_FILE_SIZE == 10 * 1024 * 1024

\* the metadata 'load-file' returns with every success
Metadata(validatedPath, filePath, size, editable) ==
    [name |-> basename(validatedPath), path |-> filePath, type |-> getFileType(filePath),
     size |-> size, editable |-> editable]

\* 'load-file' from the size check on, for a limit on the size
loadWithin(f, validatedPath, filePath, tooBig) ==
    IF tooBig
    THEN Reply(f, [success |-> TRUE, content |-> "",
                   metadata |-> [name |-> basename(validatedPath), path |-> filePath,
                                 type |-> getFileType(filePath),
                                 size |-> SizeOf(f[validatedPath]), editable |-> FALSE,
                                 tooBig |-> TRUE,
                                 error |-> "File is too large to edit (max 10MB)"]])
    ELSE IF isEditableFile(validatedPath)
    THEN IF ~readFile(f, validatedPath).ok THEN Reply(f, Failure("Failed to load file"))
         ELSE Reply(f, [success |-> TRUE, content |-> readFile(f, validatedPath).value,
                        metadata |-> Metadata(validatedPath, filePath,
                                              SizeOf(f[validatedPath]), TRUE)])
    ELSE Reply(f, [success |-> TRUE, content |-> "",
                   metadata |-> Metadata(validatedPath, filePath,
                                         SizeOf(f[validatedPath]), FALSE)])

\* 'load-file' that refuses a file of exactly MAX_FILE_SIZE bytes
loadExistingBelowLimit(f, validatedPath, filePath) ==
    loadWithin(f, validatedPath, filePath, SizeOf(f[validatedPath]) >= MAX_FILE_SIZE)

\* 'load-file' once the file is known to exist
loadExisting(f, validatedPath, filePath) ==
    loadWithin(f, validatedPath, filePath, SizeOf(f[validatedPath]) > MAX_FILE_SIZE)

\* ipcMain.handle('load-file')
loadFile(f, data) ==
    IF ~NonEmptyString(data.filePath) THEN Reply(f, Failure("Failed to load file"))
    ELSE
    With(validateSkillPath(data.filePath, getSkillsDir), LAMBDA validatedPath :
    IF ~validatedPath.ok THEN Reply(f, Failure("Failed to load file"))
    ELSE IF ~existsSync(f, validatedPath.value)
    THEN Reply(f, Failure("File does not exist"))
    ELSE loadExisting(f, validatedPath.value, data.filePath))

\* the characters in the order of the root collation: blank and punctuation, digits,
\* letters whatever their case
CollationOrder ==
    " _-,;:!?.()[]{}@*/\\&#%^+<=>|~$0123456789abcdefghijklmnopqrstuvwxyz"
PrimaryWeight(c) == IndexIn(CollationOrder, LowerChar(c))
CaseWeight(c) == IF c \in UpperSet THEN 1 ELSE 0

\* the first place where the keys of a and b differ, as FirstDifference
FirstKeyDifference(a, b, Key(_)) ==
    With({i \in 1..(IF Len(a) < Len(b) THEN Len(a) ELSE Len(b)) :
             Key(Ch(a, i)) # Key(Ch(b, i))},
         LAMBDA D :
         IF D # {} THEN CHOOSE i \in D : \A j \in D : i <= j
         ELSE IF Len(a) = Len(b) THEN 0
         ELSE (IF Len(a) < Len(b) THEN Len(a) ELSE Len(b)) + 1)

\* a.localeCompare(b): the letters and digits decide; between names that differ in
\* case only, the first difference in case does, lower case first
localeCompare(a, b) ==
    With(FirstKeyDifference(a, b, PrimaryWeight), LAMBDA i :
    IF i # 0
    THEN IF i > Len(a) THEN -1
         ELSE IF i > Len(b) THEN 1
         ELSE IF PrimaryWeight(Ch(a, i)) < PrimaryWeight(Ch(b, i)) THEN -1 ELSE 1
    ELSE With(FirstKeyDifference(a, b, CaseWeight), LAMBDA j :
         IF j = 0 THEN 0
         ELSE IF CaseWeight(Ch(a, j)) < CaseWeight(Ch(b, j)) THEN -1 ELSE 1))

\* the comparator of tree.sort(...): folders first, then by name
compareNodes(a, b) ==
    IF a.type # b.type THEN (IF a.type = "folder" THEN -1 ELSE 1)
    ELSE localeCompare(a.name, b.name)

\* the entries that are not hidden, node_modules among them
VisibleWithModules(entries) ==
    SelectSeq(entries, LAMBDA entry : ~StartsWith(entry.name, "."))

\* the entries buildFileTree does not skip
Visible(entries) ==
    SelectSeq(entries, LAMBDA entry :
              ~StartsWith(entry.name, ".") /\ entry.name # "node_modules")

\* the tree as the loop leaves it, entries in the order they were read
unsortedNodes(nodes) == nodes

\* tree.sort((a, b) => ...)
sortNodes(nodes) == SortSeq(nodes, LAMBDA a, b : compareNodes(a, b) < 0)

\* the hosts the application runs on, by the flavour of Node's path module there
Hosts == {"posix", "win32"}

\* path.join(relativePath, name) on `host`, for a relative path that path.join made
\* there and the name of a directory entry: path.win32.join puts a backslash between
\* them. The disk stays keyed by the location of its entries, spelled the POSIX way;
\* what the handler returns is spelled as the host spells it.
joinOn(host, relativePath, name) ==
    IF host = "win32" THEN relativePath \o "\\" \o name
    ELSE join(<<relativePath, name>>)

\* buildFileTree(dirPath, skillDirPath, relativePath) on `host`, directories read in
\* `order`
RECURSIVE buildFileTree(_, _, _, _, _)
buildFileTree(f, dirPath, relativePath, order, host) ==
    With(Visible(readdir(f, dirPath, order).value), LAMBDA entries :
    sortNodes(
        [k \in 1..Len(entries) |->
            With(join(<<dirPath, entries[k].name>>), LAMBDA fullPath :
            With(IF relativePath # "" THEN joinOn(host, relativePath, entries[k].name)
                 ELSE entries[k].name, LAMBDA relPath :
            IF entries[k].isDirectory
            THEN [name |-> entries[k].name, path |-> relPath, type |-> "folder",
                  children |-> buildFileTree(f, fullPath, relPath, order, host)]
            ELSE [name |-> entries[k].name, path |-> relPath, type |-> "file",
                  fileType |-> getFileType(entries[k].name),
                  size |-> SizeOf(f[fullPath]),
                  editable |-> isEditableFile(entries[k].name)]))]))

\* ipcMain.handle('list-skill-files') on `host`, directories read in `order`
listSkillFiles(f, skillPath, order, host) ==
    With(validateSkillPath(skillPath, getSkillsDir), LAMBDA validatedPath :
    IF ~validatedPath.ok THEN Reply(f, Failure("Failed to list skill files"))
    ELSE
    With(dirname(validatedPath.value), LAMBDA skillDir :
    IF ~existsSync(f, skillDir) THEN Reply(f, Failure("Skill directory does not exist"))
    ELSE IF ~readdir(f, skillDir, order).ok
    THEN Reply(f, Failure("Failed to list skill files"))
    ELSE Reply(f, [success |-> TRUE, files |-> buildFileTree(f, skillDir, "", order, host)])))

\* app.getPath('temp')
TempDir == "/tmp"

\* no export under way
NoOutput == [state |-> "none", zipPath |-> "", skillDir |-> ""]

\* no file is selected: currentFile = null
NoFile == [set |-> FALSE, path |-> "", editable |-> FALSE]

\* the renderer before a skill is open
NoSession ==
    [currentSkill |-> "", currentSkillDir |-> "", currentFile |-> NoFile, editor |-> "",
     shown |-> FALSE, hasUnsavedChanges |-> FALSE, autoSaveDebounceTimer |-> FALSE,
     tasks |-> {}, origin |-> ""]

\* `origin` is history: the file whose content the editor was given, followed through a
\* move of the selection

\* the main process with its window open: the startup cleanup is over, no quit asked
Running == [phase |-> "running", windows |-> 1, queue |-> {}, oneHourAgo |-> 0, swept |-> {}]

\* a file of the temporary directory that was last written at `mtimeMs`
Aged(content, mtimeMs) == [kind |-> "file", content |-> content, mtimeMs |-> mtimeMs]

\* stats.mtimeMs: a file written in this session is as old as the session at most
MTimeOf(node, now) == IF "mtimeMs" \in DOMAIN node THEN node.mtimeMs ELSE now

\* String.prototype.includes
Includes(s, part) ==
    \E i \in 1..(Len(s) - Len(part) + 1) : SubSeq(s, i, i + Len(part) - 1) = part

\* files.filter(f => f.match(/^.+\.zip$/) && f.includes('skill')) on readdir(tempDir),
\* as paths: path.join(tempDir, file)
skillZips(f, tempDir) ==
    {ChildPath(tempDir, name) :
        name \in {n \in ChildNames(f, tempDir) :
                     /\ Len(n) >= 5
                     /\ SubSeq(n, Len(n) - 3, Len(n)) = ".zip"
                     /\ Includes(n, "skill")}}

\* 60 * 60 * 1000
OneHour == 60 * 60 * 1000

\* one turn of the loop of cleanupOldTempFiles: stat, the test of the age, unlink;
\* `fails`: stat or unlink throws, which the loop ignores
pruneOne(f, filePath, oneHourAgo, fails) ==
    IF fails \/ filePath \notin DOMAIN f \/ f[filePath].kind # "file" THEN f
    ELSE IF MTimeOf(f[filePath], oneHourAgo + OneHour) < oneHourAgo
    THEN [q \in DOMAIN f \ {filePath} |-> f[q]]
    ELSE f

\* one turn of the loop of the before-quit handler: unlink, its error logged
sweepOne(f, filePath, fails) ==
    IF fails \/ filePath \notin DOMAIN f \/ f[filePath].kind # "file" THEN f
    ELSE [q \in DOMAIN f \ {filePath} |-> f[q]]

\* the promise of a handler is still pending; it was rejected with `reason`
Pending == [pending |-> TRUE]
Rejected(reason) == [rejected |-> TRUE, reason |-> reason]

\* archive.directory(skillDir, destpath) with the name of the bundle as destpath: the
\* entries under a directory of that name
archiveDirectoryNested(f, skillDir) ==
    [n \in {basename(skillDir) \o SubSeq(p, Len(skillDir) + 1, Len(p))
                \o (IF f[p].kind = "dir" THEN "/" ELSE "") :
                p \in {q \in DOMAIN f : q # skillDir /\ Within(q, skillDir)}} |->
        f[CHOOSE p \in DOMAIN f :
              /\ p # skillDir /\ Within(p, skillDir)
              /\ n = basename(skillDir) \o SubSeq(p, Len(skillDir) + 1, Len(p))
                         \o (IF f[p].kind = "dir" THEN "/" ELSE "")]]

\* archive.directory(skillDir, false): one entry for every file and every directory
\* below skillDir, hidden ones too, named by its path from skillDir, a directory with
\* "/" at the end
archiveDirectory(f, skillDir) ==
    [n \in {SubSeq(p, Len(skillDir) + 2, Len(p)) \o (IF f[p].kind = "dir" THEN "/" ELSE "") :
                p \in {q \in DOMAIN f : q # skillDir /\ Within(q, skillDir)}} |->
        f[CHOOSE p \in DOMAIN f :
              /\ p # skillDir /\ Within(p, skillDir)
              /\ n = SubSeq(p, Len(skillDir) + 2, Len(p))
                         \o (IF f[p].kind = "dir" THEN "/" ELSE "")]]

\* the archive file the stream leaves at its close
Zip(entries) == [kind |-> "file", content |-> "PK", entries |-> entries]

\* the outcome of the synchronous part of 'create-zip': the tracking set and the
\* stream afterwards, and what the promise holds
Export(tracked, out, r) == [tracked |-> tracked, output |-> out, res |-> r]

\* 'create-zip' that does not register the archive it starts
createZipUntracked(f, tracked, data) ==
    IF \/ ~(NonEmptyString(data.skillPath) /\ NameString(data.skillName))
       \/ ~validateSkillPath(data.skillPath, getSkillsDir).ok
       \/ ~existsSync(f, dirname(validateSkillPath(data.skillPath, getSkillsDir).value))
    THEN Export(tracked, NoOutput, Rejected(Failure("Failed to create ZIP")))
    ELSE Export(tracked,
                [state |-> "open",
                 zipPath |-> join(<<TempDir, "skill-" \o Strip(data.skillName, FileNameChars)
                                             \o "-" \o data.now \o ".zip">>),
                 skillDir |-> dirname(validateSkillPath(data.skillPath, getSkillsDir).value)],
                Pending)

\* ipcMain.handle('create-zip') up to archive.finalize(): the executor of the promise
createZip(f, tracked, data) ==
    IF ~(NonEmptyString(data.skillPath) /\ NameString(data.skillName))
    THEN Export(tracked, NoOutput, Rejected(Failure("Failed to create ZIP")))
    ELSE
    With(validateSkillPath(data.skillPath, getSkillsDir), LAMBDA validatedPath :
    IF ~validatedPath.ok
    THEN Export(tracked, NoOutput, Rejected(Failure("Failed to create ZIP")))
    ELSE IF ~existsSync(f, dirname(validatedPath.value))
    THEN Export(tracked, NoOutput, Rejected(Failure("Failed to create ZIP")))
    ELSE
    With(join(<<TempDir, "skill-" \o Strip(data.skillName, FileNameChars)
                         \o "-" \o data.now \o ".zip">>), LAMBDA zipPath :
    Export(tracked \cup {zipPath},
           [state |-> "open", zipPath |-> zipPath, skillDir |-> dirname(validatedPath.value)],
           Pending)))

\* output.on('close'): the archive is on disk, the promise resolves
onClose(f, tracked, out) ==
    [fs |-> [p \in DOMAIN f \cup {out.zipPath} |->
                IF p = out.zipPath THEN Zip(archiveDirectory(f, out.skillDir)) ELSE f[p]],
     tracked |-> tracked,
     res |-> [success |-> TRUE, zipPath |-> out.zipPath]]

\* output.on('error') and archive.on('error'): the path leaves the set, the promise
\* is rejected; the part of the archive written so far may be on disk
onError(f, tracked, out, partial) ==
    [fs |-> IF partial
            THEN [p \in DOMAIN f \cup {out.zipPath} |->
                     IF p = out.zipPath THEN File("PK") ELSE f[p]]
            ELSE f,
     tracked |-> tracked \ {out.zipPath},
     res |-> Rejected(Failure("Failed to create ZIP"))]

\* ipcMain.on('start-drag'): what the renderer is sent, or that the native drag has
\* started; startDrag may throw
startDrag(f, zipPath, throws) ==
    IF ~existsSync(f, zipPath) THEN [event |-> "drag-error", message |-> "ZIP file not found"]
    ELSE IF throws THEN [event |-> "drag-error", message |-> "Failed to start drag operation"]
    ELSE [event |-> "drag", file |-> zipPath]

(***************************************************************************)
(* The library on disk                                                     *)
(***************************************************************************)
\* the manifest path and the directory of the bundle called name
ManifestOf(name) == join(<<getSkillsDir, name, "SKILL.md">>)
BundleDir(name) == join(<<getSkillsDir, name>>)

PrefsFile == UserData \o "/prefs.json"

\* a first start: the user-data directory exists, the library root does not yet
FreshDisk == [p \in {"/", "/etc", UserData, PrefsFile} |->
                IF p = PrefsFile THEN File("prefs") ELSE Dir]

\* the files of a library with two bundles, "b1" (a file, a folder with a file in
\* it) and "b1-old", as create-skill and create-file leave them
PopulatedFiles ==
    [p \in {PrefsFile, ManifestOf("b1"), BundleDir("b1") \o "/a.txt",
            BundleDir("b1") \o "/docs/n.md", ManifestOf("b1-old")} |->
        IF p = PrefsFile THEN "prefs"
        ELSE IF p = ManifestOf("b1") THEN "manifest one"
        ELSE IF p = ManifestOf("b1-old") THEN "manifest two"
        ELSE "text"]

PopulatedDirs == {"/etc"} \cup UNION {AncestorsOrSelf(dirname(p)) : p \in DOMAIN PopulatedFiles}

PopulatedDisk ==
    [p \in PopulatedDirs \cup DOMAIN PopulatedFiles |->
        IF p \in DOMAIN PopulatedFiles THEN File(PopulatedFiles[p]) ELSE Dir]

(***************************************************************************)
(* Requests the renderer can send                                          *)
(***************************************************************************)
\* how many requests a behaviour handles
MaxOps == 1

\* bundle paths as the renderer passes them (a manifest path), and paths it has no
\* business passing: a bundle directory, the library root, a file elsewhere
SkillPaths == {ManifestOf("b1"), BundleDir("b1"), getSkillsDir, "/etc/SKILL.md"}
BundlePaths == {ManifestOf("b1"), getSkillsDir}

SkillNames == {"My Skill", "b1", "skill", "!!!"}
SavePaths == {ManifestOf("b1"), BundleDir("b1") \o "/new.md", "../prefs.json", PrefsFile}
CreatePaths == {"new.txt", "my dir/x y.txt", "..", "docs/..", "../b1-old/x.txt", "/etc/x",
                "SKILL.md", "!!!", "a\\..\\x"}
FolderPaths == {"lib", "my dir/sub", ".", "..", "../b1-evil", "a.txt/sub"}
DeleteTargets == {"a.txt", "docs", "SKILL.md", "docs/SKILL.md", ".", "docs/..",
                  "../b1-old", "../b1-old/SKILL.md", "nope"}
OldPaths == {"a.txt", "docs", "docs/n.md", "SKILL.md", ".", "nope"}
NewNames == {"b.txt", "a b.txt", "x/y.md", "!!!", "..", ".", "docs"}
NewPaths == {"docs/a.txt", "b c.txt", "../b1-old/a.txt", ".", "docs/sub/a.txt"}
TargetFolders == {"", "up load", ".."}
Contents == {"new"}

Upload(name) == [name |-> name, data |-> "bytes"]

\* upload batches: one file, a folder upload, a batch with a name that sanitizes to
\* nothing in the middle, a traversal, the manifest's name, the name of a folder
\* that may be there
Batches == {<<Upload("u.txt")>>,
            <<Upload("d/u v.txt"), Upload("d\\w.txt")>>,
            <<Upload("u.txt"), Upload("!!!"), Upload("v.txt")>>,
            <<Upload("../e.txt"), Upload("a/./b")>>,
            <<Upload("SKILL.md")>>,
            <<Upload("docs"), Upload("z.txt")>>}

(***************************************************************************)
(* The state machine: one action per IPC channel                           *)
(***************************************************************************)
NoRequest == [channel |-> "none", data |-> [skillPath |-> ""]]
NoCall == [fn |-> "none", arg |-> "", base |-> "", out |-> Throw("")]

Init ==
    /\ fs \in {FreshDisk, PopulatedDisk}
    /\ prev = fs
    /\ req = NoRequest
    /\ res = Failure("")
    /\ nops = 0
    /\ call = NoCall
    /\ trackedTempFiles = {}
    /\ output = NoOutput
    /\ app = Running
    /\ ui = NoSession

\* a request arrives on `channel` with payload `data`
Receive(channel, data) ==
    /\ nops < MaxOps
    /\ nops' = nops + 1
    /\ prev' = fs
    /\ req' = [channel |-> channel, data |-> data]

\* the handler has computed `out`: the disk is as it left it, the reply is returned
Return(out) ==
    /\ fs' = out.fs
    /\ res' = out.res
    /\ UNCHANGED <<call, trackedTempFiles, output, app, ui>>

CreateSkill ==
    \E n \in SkillNames, c \in Contents :
        LET data == [name |-> n, description |-> "", content |-> c]
        IN /\ Receive("create-skill", data)
           /\ Return(createSkill(fs, data))

SaveSkill ==
    \E sp \in SavePaths, c \in Contents :
        LET data == [skillPath |-> sp, content |-> c]
        IN /\ Receive("save-skill", data)
           /\ Return(saveSkill(fs, data))

DeleteSkill ==
    \E sp \in SkillPaths :
        LET data == [skillPath |-> sp]
        IN /\ Receive("delete-skill", data)
           /\ Return(deleteSkill(fs, data))

CreateFile ==
    \E sp \in SkillPaths, fp \in CreatePaths, c \in Contents :
        LET data == [skillPath |-> sp, filePath |-> fp, content |-> c]
        IN /\ Receive("create-file", data)
           /\ Return(createFile(fs, data))

CreateFolder ==
    \E sp \in BundlePaths, fp \in FolderPaths :
        LET data == [skillPath |-> sp, folderPath |-> fp]
        IN /\ Receive("create-folder", data)
           /\ Return(createFolder(fs, data))

DeleteFileOrFolder ==
    \E sp \in SkillPaths, t \in DeleteTargets :
        LET data == [skillPath |-> sp, targetPath |-> t]
        IN /\ Receive("delete-file-or-folder", data)
           /\ Return(deleteFileOrFolder(fs, data))

RenameFileOrFolder ==
    \E sp \in BundlePaths, o \in OldPaths, n \in NewNames :
        LET data == [skillPath |-> sp, oldPath |-> o, newName |-> n]
        IN /\ Receive("rename-file-or-folder", data)
           /\ Return(renameFileOrFolder(fs, data))

MoveFile ==
    \E sp \in BundlePaths, o \in OldPaths, n \in NewPaths :
        LET data == [skillPath |-> sp, oldPath |-> o, newPath |-> n]
        IN /\ Receive("move-file", data)
           /\ Return(moveFile(fs, data))

UploadFiles ==
    \E sp \in BundlePaths, t \in TargetFolders, b \in Batches :
        LET data == [skillPath |-> sp, files |-> b, targetFolder |-> t]
        IN /\ Receive("upload-files", data)
           /\ Return(uploadFiles(fs, data))

Next ==
    \/ CreateSkill
    \/ SaveSkill
    \/ DeleteSkill
    \/ CreateFile
    \/ CreateFolder
    \/ DeleteFileOrFolder
    \/ RenameFileOrFolder
    \/ MoveFile
    \/ UploadFiles

Spec == Init /\ [][Next]_vars

(***************************************************************************)
(* Bundles coming and going: create-skill, load-skill (with its import     *)
(* branch), list-skills and delete-skill, several requests in a row        *)
(***************************************************************************)
\* how many requests a behaviour of SpecBundles handles
MaxBundleOps == 3

\* manifests outside the library: two with the same parent directory name, one whose
\* parent directory has the reserved name and whose own name is in lower case; and a
\* file that is no manifest
ExternalFiles ==
    [p \in {"/ext1/widget/SKILL.md", "/ext2/widget/SKILL.md", "/ext3/skill/skill.md",
            "/ext1/widget/notes.txt"} |->
        IF p = "/ext1/widget/SKILL.md" THEN "description: first\nwidget one"
        ELSE IF p = "/ext2/widget/SKILL.md" THEN "widget two"
        ELSE "other"]

\* the disk f with the external files and the directories above them
WithExternal(f) ==
    [p \in DOMAIN f \cup DOMAIN ExternalFiles
           \cup UNION {AncestorsOrSelf(dirname(q)) : q \in DOMAIN ExternalFiles} |->
        IF p \in DOMAIN ExternalFiles THEN File(ExternalFiles[p])
        ELSE IF p \in DOMAIN f THEN f[p] ELSE Dir]

\* names given to create-skill, paths given to load-skill, bundles asked to be
\* deleted, readings of the clock
BundleNames == {"widget", "My Skill"}
LoadPaths == {"/ext1/widget/SKILL.md", "/ext2/widget/SKILL.md", "/ext3/skill/skill.md",
              "/ext1/widget/notes.txt", "/ext1/none/SKILL.md",
              ManifestOf("widget"), "widget-1/SKILL.md"}
DeletePaths == {ManifestOf("widget"), ManifestOf("widget-1"), ManifestOf("b1")}
Clock == {"1700000000000"}

InitBundles ==
    /\ fs \in {WithExternal(FreshDisk), WithExternal(PopulatedDisk)}
    /\ prev = fs
    /\ req = NoRequest
    /\ res = Failure("")
    /\ nops = 0
    /\ call = NoCall
    /\ trackedTempFiles = {}
    /\ output = NoOutput
    /\ app = Running
    /\ ui = NoSession

\* a request arrives on `channel` with payload `data`
Request(channel, data) ==
    /\ nops < MaxBundleOps
    /\ nops' = nops + 1
    /\ prev' = fs
    /\ req' = [channel |-> channel, data |-> data]

CreateBundle ==
    \E n \in BundleNames, c \in Contents :
        LET data == [name |-> n, description |-> "", content |-> c]
        IN /\ Request("create-skill", data)
           /\ Return(createSkill(fs, data))

\* the payload of load-skill is the path; the reading of the clock goes with it
LoadSkill ==
    \E sp \in LoadPaths, now \in Clock :
        LET data == [skillPath |-> sp, now |-> now]
        IN /\ Request("load-skill", data)
           /\ Return(loadSkill(fs, sp, now))

\* list-skills has no payload; the order in which the directory is read goes with it
ListSkills ==
    \E order \in DirOrders :
        LET data == [skillPath |-> "", order |-> order]
        IN /\ Request("list-skills", data)
           /\ Return(listSkills(fs, order))

DeleteBundle ==
    \E sp \in DeletePaths :
        LET data == [skillPath |-> sp]
        IN /\ Request("delete-skill", data)
           /\ Return(deleteSkill(fs, data))

NextBundles ==
    \/ CreateBundle
    \/ LoadSkill
    \/ ListSkills
    \/ DeleteBundle

SpecBundles == InitBundles /\ [][NextBundles]_vars

(***************************************************************************)
(* Listings: list-skills and list-skill-files on libraries and bundles of  *)
(* many shapes, one request per behaviour                                  *)
(***************************************************************************)
\* how many of the candidate entries a generated bundle holds at most
MaxTreeEntries == 3

\* the disk with the files of `files` (path to content), the directories of `dirs`
\* and the directories above them
DiskOf(files, dirs) ==
    [p \in DOMAIN files \cup UNION {AncestorsOrSelf(d) : d \in dirs}
           \cup UNION {AncestorsOrSelf(dirname(q)) : q \in DOMAIN files} |->
        IF p \in DOMAIN files THEN File(files[p]) ELSE Dir]

\* what a directory of the library root may look like: a bundle, a bundle whose name
\* passes sanitization without being sanitized, directories with the reserved name
\* and with a name that sanitizes to nothing, a directory without manifest, a
\* directory whose SKILL.md is a directory; and a plain file in the root
LibraryFiles ==
    [p \in {ManifestOf("b1"), ManifestOf("My Skill"), ManifestOf("skill"),
            ManifestOf("___"), BundleDir("nomanifest") \o "/a.txt",
            getSkillsDir \o "/notes.txt"} |->
        IF p = ManifestOf("b1") THEN "---\ndescription:  one \n---\nbody"
        ELSE IF p = ManifestOf("My Skill") THEN "description:\n"
        ELSE "text"]
LibraryDirs == {ManifestOf("dirman")}

\* the libraries made of some of these
LibraryDisks ==
    {DiskOf([p \in F |-> LibraryFiles[p]], D \cup {getSkillsDir}) :
        F \in SUBSET DOMAIN LibraryFiles, D \in SUBSET LibraryDirs}

\* a library root that cannot be read as a directory
UnreadableRootDisk == DiskOf([p \in {getSkillsDir} |-> "not a directory"], {UserData})

\* what a bundle may hold besides its manifest: files whose names differ in case and
\* punctuation, folders (empty, nested), hidden entries and node_modules
TreeFiles ==
    {"b.txt", "B.txt", "a.txt", "_x.png", "z/q.py", "z/y/deep", "Alpha/.keep",
     ".env", "node_modules/m.js", "z/.cache/t.md"}
TreeDirs == {"empty", "z", "Alpha/x.d"}

TreeDisks ==
    {DiskOf([p \in {ManifestOf("b1")} \cup {BundleDir("b1") \o "/" \o n : n \in F} |-> "text"],
            {BundleDir("b1") \o "/" \o n : n \in D}) :
        F \in {X \in SUBSET TreeFiles : Cardinality(X) <= MaxTreeEntries},
        D \in {X \in SUBSET TreeDirs : Cardinality(X) <= 1}}

\* bundle paths given to list-skill-files: a bundle, a bundle that is not there, a
\* path outside the library
TreePaths == {ManifestOf("b1"), ManifestOf("gone"), "/etc/SKILL.md"}

\* one request is left
InitListing ==
    /\ fs \in LibraryDisks \cup TreeDisks \cup {UnreadableRootDisk, FreshDisk}
    /\ prev = fs
    /\ req = NoRequest
    /\ res = Failure("")
    /\ nops = MaxBundleOps - 1
    /\ call = NoCall
    /\ trackedTempFiles = {}
    /\ output = NoOutput
    /\ app = Running
    /\ ui = NoSession

\* the payload of list-skill-files is the bundle path; the host and the order in which
\* it reads directories go with it
ListSkillFiles ==
    \E sp \in TreePaths, order \in DirOrders, host \in Hosts :
        LET data == [skillPath |-> sp, order |-> order, host |-> host]
        IN /\ Request("list-skill-files", data)
           /\ Return(listSkillFiles(fs, sp, order, host))

NextListing ==
    \/ ListSkills
    \/ ListSkillFiles

SpecListing == InitListing /\ [][NextListing]_vars

(***************************************************************************)
(* Loading a file: load-file on bundles holding one file of some name and  *)
(* size, one request per behaviour                                         *)
(***************************************************************************)
\* names with extensions inside and outside the allow-list, in both cases, with no
\* extension, and with a dot in front only
LoadNames == {"notes.md", "NOTES.TXT", "pic.png", "data.pdf", "Makefile", ".md", "lib.d.ts"}

\* sizes at and around the limit
LoadSizes == {0, 5, MAX_FILE_SIZE - 1, MAX_FILE_SIZE, MAX_FILE_SIZE + 1}

\* the populated library with a file called name of size bytes in bundle b1, and a
\* folder whose name ends like an editable file
LoadDisk(name, size) ==
    [p \in DOMAIN PopulatedDisk \cup {BundleDir("b1") \o "/" \o name, BundleDir("b1") \o "/dir.md"} |->
        IF p = BundleDir("b1") \o "/" \o name
        THEN Sized(IF size = 0 THEN "" ELSE "bytes", size)
        ELSE IF p = BundleDir("b1") \o "/dir.md" THEN Dir
        ELSE PopulatedDisk[p]]

\* the paths asked for: the generated files, the manifest, folders, a missing file,
\* a relative path, paths outside the library
FilePaths ==
    {BundleDir("b1") \o "/" \o n : n \in LoadNames}
    \cup {ManifestOf("b1"), BundleDir("b1") \o "/docs", BundleDir("b1") \o "/dir.md",
          BundleDir("b1") \o "/gone.md", "b1/a.txt", PrefsFile, "../prefs.json", ""}

InitFiles ==
    /\ fs \in {LoadDisk(n, size) : n \in LoadNames, size \in LoadSizes}
    /\ prev = fs
    /\ req = NoRequest
    /\ res = Failure("")
    /\ nops = MaxBundleOps - 1
    /\ call = NoCall
    /\ trackedTempFiles = {}
    /\ output = NoOutput
    /\ app = Running
    /\ ui = NoSession

LoadFile ==
    \E fp \in FilePaths :
        LET data == [skillPath |-> "", filePath |-> fp]
        IN /\ Request("load-file", data)
           /\ Return(loadFile(fs, data))

NextFiles == LoadFile

SpecFiles == InitFiles /\ [][NextFiles]_vars

(***************************************************************************)
(* Export: create-zip with the completion of its stream, and start-drag    *)
(***************************************************************************)
\* the disk f with the temporary directory
WithTemp(f) == [p \in DOMAIN f \cup {TempDir} |-> IF p = TempDir THEN Dir ELSE f[p]]

\* the populated library with a hidden file and an empty folder in bundle b1
ExportDisk ==
    [p \in DOMAIN PopulatedDisk \cup {BundleDir("b1") \o "/.env", BundleDir("b1") \o "/empty"} |->
        IF p = BundleDir("b1") \o "/.env" THEN File("secret")
        ELSE IF p = BundleDir("b1") \o "/empty" THEN Dir
        ELSE PopulatedDisk[p]]

\* the bundles asked for: two that are there, one that is not, a path outside the
\* library, no path
ZipPaths == {ManifestOf("b1"), ManifestOf("b1-old"), ManifestOf("gone"), "/etc/SKILL.md", ""}
ZipNames == {"b1", "My Skill!"}

\* the readings of Date.now() an export may get: two exports may read the same
\* millisecond
ZipClock == {"1700000000000", "1700000000001"}

\* the archives start-drag may be asked for
DragPaths ==
    {join(<<TempDir, "skill-" \o Strip(n, FileNameChars) \o "-" \o now \o ".zip">>) :
        n \in ZipNames, now \in ZipClock}

\* the temporary directory may be missing
InitExport ==
    /\ fs \in {WithTemp(ExportDisk), ExportDisk, WithTemp(FreshDisk)}
    /\ prev = fs
    /\ req = NoRequest
    /\ res = Failure("")
    /\ nops = 0
    /\ call = NoCall
    /\ trackedTempFiles = {}
    /\ output = NoOutput
    /\ app = Running
    /\ ui = NoSession

\* the renderer awaits one export at a time
CreateZip ==
    \E sp \in ZipPaths, n \in ZipNames, now \in ZipClock :
        LET data == [skillPath |-> sp, skillName |-> n, now |-> now]
        IN /\ output.state # "open"
           /\ Request("create-zip", data)
           /\ trackedTempFiles' = createZip(fs, trackedTempFiles, data).tracked
           /\ output' = createZip(fs, trackedTempFiles, data).output
           /\ res' = createZip(fs, trackedTempFiles, data).res
           /\ UNCHANGED <<fs, call, app, ui>>

\* the stream closes: the temporary directory took the archive
ZipClose ==
    /\ output.state = "open"
    /\ TempDir \in DOMAIN fs /\ fs[TempDir].kind = "dir"
    /\ fs' = onClose(fs, trackedTempFiles, output).fs
    /\ trackedTempFiles' = onClose(fs, trackedTempFiles, output).tracked
    /\ res' = onClose(fs, trackedTempFiles, output).res
    /\ output' = [output EXCEPT !.state = "closed"]
    /\ UNCHANGED <<prev, req, nops, call, app, ui>>

\* the stream fails: it cannot open the file, or cannot go on writing it
ZipStreamError ==
    \E partial \in BOOLEAN :
        /\ output.state = "open"
        /\ partial => (TempDir \in DOMAIN fs /\ fs[TempDir].kind = "dir")
        /\ fs' = onError(fs, trackedTempFiles, output, partial).fs
        /\ trackedTempFiles' = onError(fs, trackedTempFiles, output, partial).tracked
        /\ res' = onError(fs, trackedTempFiles, output, partial).res
        /\ output' = [output EXCEPT !.state = "failed"]
        /\ UNCHANGED <<prev, req, nops, call, app, ui>>

\* the archiver fails on an entry while the stream is open
ZipArchiveError ==
    /\ output.state = "open"
    /\ TempDir \in DOMAIN fs /\ fs[TempDir].kind = "dir"
    /\ fs' = onError(fs, trackedTempFiles, output, TRUE).fs
    /\ trackedTempFiles' = onError(fs, trackedTempFiles, output, TRUE).tracked
    /\ res' = onError(fs, trackedTempFiles, output, TRUE).res
    /\ output' = [output EXCEPT !.state = "failed"]
    /\ UNCHANGED <<prev, req, nops, call, app, ui>>

StartDrag ==
    \E zp \in DragPaths, throws \in BOOLEAN :
        LET data == [skillPath |-> "", zipPath |-> zp, skillName |-> "b1"]
        IN /\ output.state # "open"
           /\ Request("start-drag", data)
           /\ res' = startDrag(fs, zp, throws)
           /\ UNCHANGED <<fs, call, trackedTempFiles, output, app, ui>>

NextExport ==
    \/ CreateZip
    \/ ZipClose
    \/ ZipStreamError
    \/ ZipArchiveError
    \/ StartDrag

SpecExport == InitExport /\ [][NextExport]_vars

(***************************************************************************)
(* The life of the main process: the startup cleanup, the windows, the     *)
(* exports of the session, the sweep at before-quit                        *)
(***************************************************************************)
\* Date.now() when cleanupOldTempFiles runs, in milliseconds from an origin two hours
\* earlier
StartTime == 2 * OneHour

\* what the temporary directory may hold at launch: archives of earlier sessions older
\* than an hour, an hour old to the millisecond and younger, an archive of another
\* program, files the filter leaves alone, a folder with the name of an archive
TempFiles ==
    [n \in {"skill-b1-1.zip", "skill-b1-2.zip", "skill-b1-3.zip", "myskills.zip",
            "notes.zip", "skill.txt"} |->
        IF n = "skill-b1-2.zip" THEN Aged("PK", StartTime - OneHour)
        ELSE IF n = "skill-b1-3.zip" THEN Aged("PK", StartTime - 1)
        ELSE Aged("PK", StartTime - OneHour - 1)]

\* the disk f with the temporary directory holding the files named in `names`, and the
\* folder skill.zip when `folder`
WithTempFiles(f, names, folder) ==
    [p \in DOMAIN f \cup {TempDir} \cup {ChildPath(TempDir, n) : n \in names}
           \cup (IF folder THEN {ChildPath(TempDir, "skill.zip")} ELSE {}) |->
        IF p = TempDir \/ p = ChildPath(TempDir, "skill.zip") THEN Dir
        ELSE IF p \in DOMAIN f THEN f[p]
        ELSE TempFiles[SubSeq(p, Len(TempDir) + 2, Len(p))]]

LaunchDisks ==
    {WithTempFiles(ExportDisk, {"skill-b1-1.zip", "skill-b1-2.zip", "notes.zip", "skill.txt"},
                   TRUE),
     WithTempFiles(ExportDisk, {"skill-b1-3.zip", "myskills.zip"}, FALSE),
     ExportDisk}

Launching == [phase |-> "launching", windows |-> 0, queue |-> {}, oneHourAgo |-> 0, swept |-> {}]

InitLifecycle ==
    /\ fs \in LaunchDisks
    /\ prev = fs
    /\ req = NoRequest
    /\ res = Failure("")
    /\ nops = 0
    /\ call = NoCall
    /\ trackedTempFiles = {}
    /\ output = NoOutput
    /\ app = Launching
    /\ ui = NoSession

\* app.whenReady(): cleanupOldTempFiles reads the temporary directory and the clock; a
\* directory that cannot be read ends the cleanup with a logged error
WhenReady ==
    /\ app.phase = "launching"
    /\ app' = [app EXCEPT !.phase = "pruning",
                          !.queue = IF readdir(fs, TempDir, "ascending").ok
                                    THEN skillZips(fs, TempDir) ELSE {},
                          !.oneHourAgo = StartTime - OneHour]
    /\ UNCHANGED <<fs, prev, req, res, nops, call, trackedTempFiles, output, ui>>

\* one turn of the loop over skillZips
PruneOne ==
    \E filePath \in app.queue, fails \in BOOLEAN :
        /\ app.phase = "pruning"
        /\ fs' = pruneOne(fs, filePath, app.oneHourAgo, fails)
        /\ app' = [app EXCEPT !.queue = app.queue \ {filePath}]
        /\ UNCHANGED <<prev, req, res, nops, call, trackedTempFiles, output, ui>>

\* createWindow() after `await cleanupOldTempFiles()`
CreateWindow ==
    /\ app.phase = "pruning"
    /\ app.queue = {}
    /\ app' = [app EXCEPT !.phase = "running", !.windows = app.windows + 1]
    /\ UNCHANGED <<fs, prev, req, res, nops, call, trackedTempFiles, output, ui>>

\* app.on('activate'): the application is activated while it has no window
Activate ==
    /\ app.phase \in {"pruning", "running"}
    /\ app.windows = 0
    /\ app' = [app EXCEPT !.windows = 1]
    /\ UNCHANGED <<fs, prev, req, res, nops, call, trackedTempFiles, output, ui>>

\* a window of the application asks for an export of bundle b1
ExportRequest ==
    \E now \in ZipClock :
        LET data == [skillPath |-> ManifestOf("b1"), skillName |-> "b1", now |-> now]
        IN /\ app.phase \in {"pruning", "running"}
           /\ app.windows > 0
           /\ output.state # "open"
           /\ Request("create-zip", data)
           /\ trackedTempFiles' = createZip(fs, trackedTempFiles, data).tracked
           /\ output' = createZip(fs, trackedTempFiles, data).output
           /\ res' = createZip(fs, trackedTempFiles, data).res
           /\ UNCHANGED <<fs, call, app, ui>>

\* the stream of the export ends while the process lives
ExportEnd ==
    /\ app.phase # "exited"
    /\ (ZipClose \/ ZipStreamError)

\* app.on('before-quit'): the handler starts its loop over trackedTempFiles
BeforeQuit ==
    /\ app.phase = "running"
    /\ app' = [app EXCEPT !.phase = "quitting", !.swept = {}]
    /\ UNCHANGED <<fs, prev, req, res, nops, call, trackedTempFiles, output, ui>>

\* one turn of that loop: the set is walked while it lives, each path once
SweepOne ==
    \E filePath \in trackedTempFiles \ app.swept, fails \in BOOLEAN :
        /\ app.phase = "quitting"
        /\ fs' = sweepOne(fs, filePath, fails)
        /\ app' = [app EXCEPT !.swept = app.swept \cup {filePath}]
        /\ UNCHANGED <<prev, req, res, nops, call, trackedTempFiles, output, ui>>

\* the process ends: the quit does not wait for the promise of the handler, so the
\* loop may have turns left
Exit ==
    /\ app.phase = "quitting"
    /\ app' = [app EXCEPT !.phase = "exited"]
    /\ UNCHANGED <<fs, prev, req, res, nops, call, trackedTempFiles, output, ui>>

NextLifecycle ==
    \/ WhenReady
    \/ PruneOne
    \/ CreateWindow
    \/ Activate
    \/ ExportRequest
    \/ ExportEnd
    \/ BeforeQuit
    \/ SweepOne
    \/ Exit

SpecLifecycle == InitLifecycle /\ [][NextLifecycle]_vars

(***************************************************************************)
(* The library from empty: create-skill, load-skill, list-skills and       *)
(* create-file in sequence                                                 *)
(***************************************************************************)
\* the manifests create-file is given as skillPath: of bundles that need not exist
NewManifests == {ManifestOf("My_Dir"), ManifestOf("widget")}
NewFiles == {"SKILL.md", "notes.md"}

InitLibrary ==
    /\ fs = WithExternal(FreshDisk)
    /\ prev = fs
    /\ req = NoRequest
    /\ res = Failure("")
    /\ nops = 0
    /\ call = NoCall
    /\ trackedTempFiles = {}
    /\ output = NoOutput
    /\ app = Running
    /\ ui = NoSession

CreateFileAt ==
    \E sp \in NewManifests, fp \in NewFiles, c \in Contents :
        LET data == [skillPath |-> sp, filePath |-> fp, content |-> c]
        IN /\ Request("create-file", data)
           /\ Return(createFile(fs, data))

NextLibrary ==
    \/ CreateBundle
    \/ LoadSkill
    \/ ListSkills
    \/ CreateFileAt

SpecLibrary == InitLibrary /\ [][NextLibrary]_vars

(***************************************************************************)
(* The renderer: the editor with its autosave, the file tree with select,  *)
(* rename and move.  The main process handles requests in the order they   *)
(* are sent and nothing else writes the disk, so a request takes effect    *)
(* when it is sent; its reply reaches the renderer in a later step.        *)
(***************************************************************************)
\* how many things the user does in a behaviour: keys, clicks, renames, moves
MaxEvents == 3

\* the populated library with a picture in bundle b1
EditorDisk ==
    [p \in DOMAIN PopulatedDisk \cup {BundleDir("b1") \o "/pic.png"} |->
        IF p = BundleDir("b1") \o "/pic.png" THEN File("bytes") ELSE PopulatedDisk[p]]

\* what loadSkill leaves: the bundle open, no file selected, its manifest in the editor
Opened(f, name) ==
    [currentSkill |-> ManifestOf(name), currentSkillDir |-> BundleDir(name),
     currentFile |-> NoFile, editor |-> f[ManifestOf(name)].content, shown |-> TRUE,
     hasUnsavedChanges |-> FALSE, autoSaveDebounceTimer |-> FALSE, tasks |-> {},
     origin |-> ManifestOf(name)]

\* an async function suspended at an await on the main process, with the reply on its way
Task(fn, arg, reply) == [fn |-> fn, arg |-> arg, reply |-> reply]
Arg(a, b) == [a |-> a, b |-> b]

\* the handler of the main process behind each function of window.electronAPI
Handle(f, channel, data) ==
    IF channel = "save-skill" THEN saveSkill(f, data)
    ELSE IF channel = "load-file" THEN loadFile(f, data)
    ELSE IF channel = "rename-file-or-folder" THEN renameFileOrFolder(f, data)
    ELSE IF channel = "move-file" THEN moveFile(f, data)
    ELSE Reply(f, [success |-> TRUE])

\* autoSave: the path it saves to
savePath(u) ==
    IF u.currentFile.set /\ u.currentFile.editable /\ u.currentSkillDir # ""
    THEN u.currentSkillDir \o "/" \o u.currentFile.path
    ELSE u.currentSkill

\* autoSave after its await: a successful save clears the flag
saved(u, reply) == IF reply.success THEN [u EXCEPT !.hasUnsavedChanges = FALSE] ELSE u

\* setEditorContent(value) with markClean
setEditorContent(u, value) ==
    [u EXCEPT !.editor = value, !.hasUnsavedChanges = FALSE, !.autoSaveDebounceTimer = FALSE]

\* loadFileFromTree after load-file has answered with success
loaded(u, relativeFilePath, reply) ==
    IF reply.metadata.editable
    THEN [setEditorContent(u, reply.content) EXCEPT
              !.currentFile = [set |-> TRUE, path |-> relativeFilePath, editable |-> TRUE],
              !.shown = TRUE,
              !.origin = u.currentSkillDir \o "/" \o relativeFilePath]
    ELSE [u EXCEPT !.currentFile = [set |-> TRUE, path |-> relativeFilePath,
                                    editable |-> FALSE],
                   !.shown = FALSE]

\* the rename handler after the tree is reloaded: a renamed selection is cleared
renamed(u, nodePath) ==
    IF u.currentFile.set /\ u.currentFile.path = nodePath
    THEN [setEditorContent(u, "") EXCEPT !.currentFile = NoFile, !.shown = FALSE,
                                         !.origin = ""]
    ELSE u

\* moveFileToFolder after the tree is reloaded: a moved selection follows the file
moved(u, filePath, newPath) ==
    IF u.currentFile.set /\ u.currentFile.path = filePath
    THEN [u EXCEPT !.currentFile.path = newPath,
                   !.origin = u.currentSkillDir \o "/" \o newPath]
    ELSE u

\* the renderer takes a step without a request
Quiet(u) ==
    /\ ui' = u
    /\ UNCHANGED <<fs, prev, req, res>>

\* the renderer, in state u, sends a request and function fn is suspended on it
Begin(channel, data, fn, arg, u) ==
    /\ prev' = fs
    /\ req' = [channel |-> channel, data |-> data, origin |-> u.origin]
    /\ fs' = Handle(fs, channel, data).fs
    /\ res' = Handle(fs, channel, data).res
    /\ ui' = [u EXCEPT !.tasks = @ \cup {Task(fn, arg, Handle(fs, channel, data).res)}]

\* autoSave() with unsaved changes, up to its await: the timer is cleared, the content
\* of the editor is sent to savePath
AutoSave(fn, arg, u) ==
    Begin("save-skill", [skillPath |-> savePath(u), content |-> u.editor], fn, arg,
          [u EXCEPT !.autoSaveDebounceTimer = FALSE])

\* loadFileFromTree(filePath) up to its first request
LoadFileFromTree(filePath, u) ==
    IF u.hasUnsavedChanges THEN AutoSave("loadFileFromTree", Arg(filePath, ""), u)
    ELSE Begin("load-file",
               [skillPath |-> "", filePath |-> u.currentSkillDir \o "/" \o filePath],
               "loadFile", Arg(filePath, ""), u)

\* the files of the tree the user clicks, the renames and the moves the user asks for
FileNodes == {"a.txt", "docs/n.md", "pic.png"}
Renames == {Arg("a.txt", "b.txt"), Arg("docs", "papers")}
Moves == {Arg("a.txt", "docs/a.txt"), Arg("docs/n.md", "n.md")}

InitEditor ==
    /\ fs = EditorDisk
    /\ prev = fs
    /\ req = NoRequest
    /\ res = Failure("")
    /\ nops = 0
    /\ call = NoCall
    /\ trackedTempFiles = {}
    /\ output = NoOutput
    /\ app = Running
    /\ ui = Opened(EditorDisk, "b1")

\* editor.onDidChangeModelContent: a key is typed into the editor
TypeChar ==
    /\ nops < MaxEvents
    /\ ui.shown
    /\ nops' = nops + 1
    /\ ui' = [ui EXCEPT !.editor = @ \o "!", !.hasUnsavedChanges = TRUE,
                        !.autoSaveDebounceTimer = TRUE]
    /\ UNCHANGED <<fs, prev, req, res, call, trackedTempFiles, output, app>>

\* the debounce timer runs out: autoSave()
TimerFires ==
    /\ ui.autoSaveDebounceTimer
    /\ IF ui.hasUnsavedChanges THEN AutoSave("autoSave", Arg("", ""), ui)
       ELSE Quiet([ui EXCEPT !.autoSaveDebounceTimer = FALSE])
    /\ UNCHANGED <<nops, call, trackedTempFiles, output, app>>

\* the save of that autoSave() is answered
SaveDone ==
    \E t \in ui.tasks :
        /\ t.fn = "autoSave"
        /\ Quiet(saved([ui EXCEPT !.tasks = @ \ {t}], t.reply))
        /\ UNCHANGED <<nops, call, trackedTempFiles, output, app>>

\* a click on a file of the tree: await autoSave(), then loadFileFromTree(nodePath)
ClickFile ==
    \E nodePath \in FileNodes :
        /\ nops < MaxEvents
        /\ nops' = nops + 1
        /\ IF ui.hasUnsavedChanges THEN AutoSave("click", Arg(nodePath, ""), ui)
           ELSE LoadFileFromTree(nodePath, ui)
        /\ UNCHANGED <<call, trackedTempFiles, output, app>>

\* the save before a load is answered: the click handler goes on to loadFileFromTree,
\* loadFileFromTree goes on to load-file
FileSaved ==
    \E t \in ui.tasks :
        /\ t.fn \in {"click", "loadFileFromTree"}
        /\ IF t.fn = "click"
           THEN LoadFileFromTree(t.arg.a, saved([ui EXCEPT !.tasks = @ \ {t}], t.reply))
           ELSE Begin("load-file",
                      [skillPath |-> "", filePath |-> ui.currentSkillDir \o "/" \o t.arg.a],
                      "loadFile", t.arg, saved([ui EXCEPT !.tasks = @ \ {t}], t.reply))
        /\ UNCHANGED <<nops, call, trackedTempFiles, output, app>>

\* load-file is answered
FileLoaded ==
    \E t \in ui.tasks :
        /\ t.fn = "loadFile"
        /\ Quiet(IF t.reply.success
                 THEN loaded([ui EXCEPT !.tasks = @ \ {t}], t.arg.a, t.reply)
                 ELSE [ui EXCEPT !.tasks = @ \ {t}])
        /\ UNCHANGED <<nops, call, trackedTempFiles, output, app>>

\* the rename modal is confirmed
RenameNode ==
    \E r \in Renames :
        /\ nops < MaxEvents
        /\ nops' = nops + 1
        /\ Begin("rename-file-or-folder",
                 [skillPath |-> ui.currentSkill, oldPath |-> r.a, newName |-> r.b],
                 "rename", r, ui)
        /\ UNCHANGED <<call, trackedTempFiles, output, app>>

\* a file of the tree is dropped on a folder: moveFileToFolder
MoveNode ==
    \E m \in Moves :
        /\ nops < MaxEvents
        /\ nops' = nops + 1
        /\ Begin("move-file",
                 [skillPath |-> ui.currentSkill, oldPath |-> m.a, newPath |-> m.b],
                 "move", m, ui)
        /\ UNCHANGED <<call, trackedTempFiles, output, app>>

\* rename or move is answered: on success the handler awaits loadFileTree()
Relocated ==
    \E t \in ui.tasks :
        /\ t.fn \in {"rename", "move"}
        /\ IF t.reply.success
           THEN Begin("list-skill-files", [skillPath |-> ui.currentSkill],
                      IF t.fn = "rename" THEN "renamed" ELSE "moved", t.arg,
                      [ui EXCEPT !.tasks = @ \ {t}])
           ELSE Quiet([ui EXCEPT !.tasks = @ \ {t}])
        /\ UNCHANGED <<nops, call, trackedTempFiles, output, app>>

\* the tree is reloaded: the handler looks at the selection
TreeReloaded ==
    \E t \in ui.tasks :
        /\ t.fn \in {"renamed", "moved"}
        /\ Quiet(IF t.fn = "renamed" THEN renamed([ui EXCEPT !.tasks = @ \ {t}], t.arg.a)
                 ELSE moved([ui EXCEPT !.tasks = @ \ {t}], t.arg.a, t.arg.b))
        /\ UNCHANGED <<nops, call, trackedTempFiles, output, app>>

NextEditing ==
    \/ TypeChar
    \/ TimerFires
    \/ SaveDone
    \/ ClickFile
    \/ FileSaved
    \/ FileLoaded

NextEditor ==
    \/ NextEditing
    \/ RenameNode
    \/ MoveNode
    \/ Relocated
    \/ TreeReloaded

SpecEditor == InitEditor /\ [][NextEditor]_vars

\* a save before a load waits for its answer
SaveAwaited == \E t \in ui.tasks : t.fn \in {"click", "loadFileFromTree"}

\* The timer runs out when it is set and every request is answered: weak fairness of
\* the four steps that are not the user's.  TimerFires is enabled exactly while the
\* timer is set and FileSaved exactly while a save before a load is awaited, and each
\* of the two steps ends what enables it, so their weak fairness is stated as what it
\* comes to: the timer is not set for ever, no such save is awaited for ever.
SpecEditing ==
    /\ InitEditor
    /\ [][NextEditing]_vars
    /\ WF_vars(SaveDone)
    /\ WF_vars(FileLoaded)
    /\ []<>~ui.autoSaveDebounceTimer
    /\ []<>~SaveAwaited

(***************************************************************************)
(* The utility functions on their own: a second machine whose actions call *)
(* one of them on an argument drawn from bounded sets of strings           *)
(***************************************************************************)
\* longest generated path string, longest generated name string
MaxPathLen == 5
MaxNameLen == 3

RECURSIVE StringsOfLen(_, _)
StringsOfLen(alphabet, n) ==
    IF n = 0 THEN {""} ELSE {s \o c : s \in StringsOfLen(alphabet, n - 1), c \in alphabet}

StringsUpTo(alphabet, n) == UNION {StringsOfLen(alphabet, k) : k \in 0..n}

\* c repeated n times
RECURSIVE Rep(_, _)
Rep(c, n) ==
    IF n = 0 THEN "" ELSE IF n = 1 THEN c ELSE Rep(c, n \div 2) \o Rep(c, n - (n \div 2))

BaseDirs == {getSkillsDir, BundleDir("b1")}

\* every short path over "a", "." and "/", and short paths behind prefixes that lie
\* in, next to and above the base directories
PathInputs ==
    StringsUpTo({"a", ".", "/"}, MaxPathLen)
    \cup {pre \o t : pre \in {"/ud/skills", "/ud/skills-evil/", "/ud/skills/b1",
                             "/ud/skills/b1-old/", "../skills", "b1/../b1-old/", "/"},
                    t \in StringsUpTo({"a", ".", "/"}, MaxPathLen - 2)}

\* every short name over a letter of each case, a digit, the three punctuation
\* characters of the file-name class and three characters outside it; names around
\* the length limit; spellings of the reserved name
NameInputs ==
    StringsUpTo({"a", "Z", "1", "-", "_", ".", " ", "!"}, MaxNameLen)
    \cup {"skill", "SKILL", "Skill", "s k_i.l!l", "skills", "sk-ill", "SKILL.md"}
    \cup {Rep("a", MaxFileNameLength), Rep("a", MaxFileNameLength + 1),
          Rep("A", MaxSkillNameLength) \o "!", "!" \o Rep("-", MaxSkillNameLength + 1),
          Rep(" ", MaxFileNameLength + 1)}

\* every short relative path over a letter, ".", " " and the two slashes, and paths
\* with a segment around the length limit
RelativeInputs ==
    StringsUpTo({"a", ".", " ", "/", "\\"}, MaxNameLen + 1)
    \cup {"d/u v.txt", "a\\. .", "d\\..\\e", "a//b\\\\c/", "/abs/x", ". ./x",
          "d/" \o Rep("a", MaxFileNameLength), "d/" \o Rep("a", MaxFileNameLength + 1) \o "/e"}

InitUtil ==
    /\ fs = PopulatedDisk
    /\ prev = fs
    /\ req = NoRequest
    /\ res = Failure("")
    /\ nops = 0
    /\ call = NoCall
    /\ trackedTempFiles = {}
    /\ output = NoOutput
    /\ app = Running
    /\ ui = NoSession

\* one call per run: the functions keep no state between calls
Idle == call.fn = "none"

Called(fn, arg, base, out) ==
    call' = [fn |-> fn, arg |-> arg, base |-> base, out |-> out]

CallValidateSkillPath ==
    \E requestedPath \in PathInputs, baseDir \in BaseDirs :
        /\ Idle
        /\ Called("validateSkillPath", requestedPath, baseDir,
                  validateSkillPath(requestedPath, baseDir))
        /\ UNCHANGED <<fs, prev, req, res, nops, trackedTempFiles, output, app, ui>>

CallSanitizeFileName ==
    \E name \in NameInputs :
        /\ Idle
        /\ Called("sanitizeFileName", name, "", sanitizeFileName(name))
        /\ UNCHANGED <<fs, prev, req, res, nops, trackedTempFiles, output, app, ui>>

CallSanitizeSkillName ==
    \E name \in NameInputs :
        /\ Idle
        /\ Called("sanitizeSkillName", name, "", sanitizeSkillName(name))
        /\ UNCHANGED <<fs, prev, req, res, nops, trackedTempFiles, output, app, ui>>

CallSanitizeRelativePath ==
    \E relativePath \in RelativeInputs :
        /\ Idle
        /\ Called("sanitizeRelativePath", relativePath, "", sanitizeRelativePath(relativePath))
        /\ UNCHANGED <<fs, prev, req, res, nops, trackedTempFiles, output, app, ui>>

NextUtil ==
    \/ CallValidateSkillPath
    \/ CallSanitizeFileName
    \/ CallSanitizeSkillName
    \/ CallSanitizeRelativePath

SpecUtil == InitUtil /\ [][NextUtil]_vars

(***************************************************************************)
(* Properties of the utility functions, checked under SpecUtil             *)
(***************************************************************************)
\* the characters of s in order
Chars(s) == [i \in 1..Len(s) |-> Ch(s, i)]

\* the characters of s that belong to class, in order
Kept(s, class) == SelectSeq(Chars(s), LAMBDA c : c \in class)

Min(S) == CHOOSE x \in S : \A y \in S : x <= y

\* the class [A-Za-z0-9._-] and the class [a-z0-9-], character by character
NameClass ==
    CharsOf("ABCDEFGHIJKLMNOPQRSTUVWXYZabcdefghijklmnopqrstuvwxyz0123456789._-")
BundleNameClass == CharsOf("abcdefghijklmnopqrstuvwxyz0123456789-")

\* Canonicalization read from right to left: a ".." cancels the nearest named
\* segment on its left, "." and empty segments vanish, ".." at the root vanishes
RECURSIVE CanonFrom(_, _, _, _)
CanonFrom(segs, i, skip, acc) ==
    IF i = 0 THEN acc
    ELSE IF segs[i] \in {"", "."} THEN CanonFrom(segs, i - 1, skip, acc)
    ELSE IF segs[i] = ".." THEN CanonFrom(segs, i - 1, skip + 1, acc)
    ELSE IF skip > 0 THEN CanonFrom(segs, i - 1, skip - 1, acc)
    ELSE CanonFrom(segs, i - 1, skip, <<segs[i]>> \o acc)

\* the canonical absolute path of requestedPath: relative inputs joined to baseDir,
\* absolute inputs as they are
Canonical(requestedPath, baseDir) ==
    LET full == IF StartsWith(requestedPath, "/") THEN requestedPath
                ELSE baseDir \o "/" \o requestedPath
        segs == Split(full, {"/"})
    IN "/" \o JoinSegs(CanonFrom(segs, Len(segs), 0, <<>>), "/")

\* c is base or starts with base followed by the separator
Under(c, base) == c = base \/ StartsWith(c, base \o "/")

\* p has a ".." segment
HasTraversal(p) == \E i \in 1..Len(Split(p, {"/"})) : Split(p, {"/"})[i] = ".."

\* C1: validateSkillPath returns normally iff the canonical absolute path of the
\* request is baseDir or starts with baseDir + separator; otherwise it fails with the
\* access-denied error; the value returned is that canonical path
C1_ValidateContract ==
    call.fn = "validateSkillPath" =>
        LET canon == Canonical(call.arg, call.base)
        IN /\ call.out.ok <=> Under(canon, call.base)
           /\ call.out.ok => call.out.value = canon
           /\ ~call.out.ok => call.out.error = AccessDenied

\* a sibling directory whose name has the base as a string prefix is refused
C1_Witness ==
    /\ call.fn = "validateSkillPath"
    /\ call.base = getSkillsDir
    /\ call.arg = "/ud/skills-evil/a"
    /\ call.out = Throw(AccessDenied)

\* C2 as stated: every relative path with a ".." segment is refused with the
\* access-denied error, and every path without traversal that resolves under base is
\* accepted with a result that has base as a string prefix
C2_TraversalAlwaysFails ==
    call.fn = "validateSkillPath" =>
        /\ (~StartsWith(call.arg, "/") /\ HasTraversal(call.arg))
               => call.out = Throw(AccessDenied)
        /\ (~HasTraversal(call.arg) /\ Under(Canonical(call.arg, call.base), call.base))
               => (call.out.ok /\ StartsWith(call.out.value, call.base))

\* C2 amended: a relative path with a ".." segment is refused with the access-denied
\* error exactly when it resolves outside base, and every path without traversal that
\* resolves under base is accepted with a result that has base as a string prefix
C2_TraversalFailsWhenEscaping ==
    call.fn = "validateSkillPath" =>
        /\ (~StartsWith(call.arg, "/") /\ HasTraversal(call.arg))
               => /\ ~call.out.ok <=> ~Under(Canonical(call.arg, call.base), call.base)
                  /\ ~call.out.ok => call.out.error = AccessDenied
        /\ (~HasTraversal(call.arg) /\ Under(Canonical(call.arg, call.base), call.base))
               => (call.out.ok /\ StartsWith(call.out.value, call.base))

\* a relative path that leaves the base and names it again is accepted
C2_Witness ==
    /\ call.fn = "validateSkillPath"
    /\ call.base = getSkillsDir
    /\ call.arg = "../skills/a"
    /\ call.out = Ok("/ud/skills/a")

\* the lower-cased form of name with every character outside [a-z0-9-] removed, as a
\* sequence of characters
LoweredKept(name) ==
    SelectSeq([i \in 1..Len(name) |-> LowerChar(Ch(name, i))],
              LAMBDA c : c \in BundleNameClass)

\* C8: sanitizeSkillName is idempotent on what it returns; every value it returns
\* is made of [a-z0-9-] only, has length 1..255 and is not "skill"; an input whose
\* lower-cased, stripped form is empty, longer than 255 or "skill" is rejected
C8_SkillNameContract ==
    call.fn = "sanitizeSkillName" =>
        /\ call.out.ok =>
               /\ sanitizeSkillName(call.out.value) = call.out
               /\ \A i \in 1..Len(call.out.value) : Ch(call.out.value, i) \in BundleNameClass
               /\ Len(call.out.value) >= 1
               /\ Len(call.out.value) <= 255
               /\ call.out.value # "skill"
        /\ (\/ Len(LoweredKept(call.arg)) = 0
            \/ Len(LoweredKept(call.arg)) > 255
            \/ LoweredKept(call.arg) = <<"s", "k", "i", "l", "l">>) => ~call.out.ok

\* a spelling of the reserved name that only lower-casing and stripping reveal
C8_Witness ==
    /\ call.fn = "sanitizeSkillName"
    /\ call.arg = "s k_i.l!l"
    /\ call.out = Throw("Invalid skill name")

\* C9: sanitizeFileName returns its argument without the characters outside
\* [A-Za-z0-9._-], the others in their order, and fails exactly when nothing is left
\* or more than 255 characters are left
C9_FileNameContract ==
    call.fn = "sanitizeFileName" =>
        LET kept == Kept(call.arg, NameClass)
        IN /\ call.out.ok <=> (Len(kept) >= 1 /\ Len(kept) <= 255)
           /\ call.out.ok => Chars(call.out.value) = kept
           /\ ~call.out.ok =>
                  call.out.error \in {"Invalid filename - must contain at least one valid character",
                                      "Filename is too long (max 255 characters)"}

\* a name of exactly 255 allowed characters is returned as it is
C9_Witness ==
    /\ call.fn = "sanitizeFileName"
    /\ Len(call.arg) = 255
    /\ call.out = Ok(call.arg)

IsSlash(c) == c \in {"/", "\\"}

\* where the maximal slash-free runs of s begin, and where the run beginning at a ends
SegmentStarts(s) ==
    {a \in 1..Len(s) : ~IsSlash(Ch(s, a)) /\ (a = 1 \/ IsSlash(Ch(s, a - 1)))}
SegmentEnd(s, a) == Min({b \in a..Len(s) : b = Len(s) \/ IsSlash(Ch(s, b + 1))})

\* the maximal slash-free runs of s, from left to right
RawSegments(s) ==
    [k \in 1..Cardinality(SegmentStarts(s)) |->
        LET a == CHOOSE x \in SegmentStarts(s) :
                     Cardinality({y \in SegmentStarts(s) : y < x}) = k - 1
        IN SubSeq(s, a, SegmentEnd(s, a))]

\* C10: sanitizeRelativePath splits on runs of "/" and "\", sanitizes each segment on
\* its own, fails with "Invalid path" when no segment remains, fails when a segment
\* cannot be sanitized or sanitizes to "." or "..", and otherwise returns the
\* sanitized segments joined by the separator; a returned path has no "." or ".."
\* segment and does not begin with a separator
C10_RelativePathContract ==
    call.fn = "sanitizeRelativePath" =>
        LET raw == RawSegments(call.arg)
            clean == [k \in 1..Len(raw) |-> sanitizeFileName(raw[k])]
            bad == \E k \in 1..Len(raw) : ~clean[k].ok \/ clean[k].value \in {".", ".."}
        IN /\ Len(raw) = 0 => call.out = Throw("Invalid path")
           /\ (Len(raw) > 0 /\ bad) => ~call.out.ok
           /\ (Len(raw) > 0 /\ ~bad) =>
                  /\ call.out.ok
                  /\ Split(call.out.value, {sep}) = [k \in 1..Len(raw) |-> clean[k].value]
           /\ call.out.ok =>
                  /\ \A k \in 1..Len(Split(call.out.value, {sep})) :
                         Split(call.out.value, {sep})[k] \notin {"", ".", ".."}
                  /\ ~StartsWith(call.out.value, sep)

\* backslashes separate segments, and a segment that sanitizes to ".." is refused
C10_Witness ==
    /\ call.fn = "sanitizeRelativePath"
    /\ call.arg = "a\\. ."
    /\ call.out = Throw("Invalid path segment")

(***************************************************************************)
(* Properties of the handlers, checked under Spec: prev is the disk before *)
(* the last request, fs the disk after it                                  *)
(***************************************************************************)
\* the paths created, removed or given another node between the disks a and b
Changed(a, b) ==
    {p \in DOMAIN a \cup DOMAIN b : p \notin DOMAIN a \/ p \notin DOMAIN b \/ a[p] # b[p]}

\* the paths that exist on b and not on a
Created(a, b) == DOMAIN b \ DOMAIN a

StrictlyInside(p, d) == StartsWith(p, d \o "/")

FileFolderChannels ==
    {"create-file", "create-folder", "delete-file-or-folder", "rename-file-or-folder",
     "move-file", "upload-files"}

\* the last request was a file/folder operation on bundle b1, named by its manifest
\* path, and the bundle was there with its manifest
OnBundle ==
    /\ req.channel \in FileFolderChannels
    /\ req.data.skillPath = ManifestOf("b1")
    /\ ManifestOf("b1") \in DOMAIN prev

\* C3 as stated: whatever the request, every path created, overwritten, renamed or
\* removed lies strictly inside the library root (the root may be created when it is
\* missing); the root itself and everything outside it stay as they were
C3_LibrarySandbox ==
    \A p \in Changed(prev, fs) :
        \/ StrictlyInside(p, getSkillsDir)
        \/ p = getSkillsDir /\ p \notin DOMAIN prev

\* C4 as stated: a file/folder operation on bundle b1 changes only paths inside the
\* directory of b1
C4_BundleConfinement ==
    OnBundle => \A p \in Changed(prev, fs) : StrictlyInside(p, BundleDir("b1"))

\* C5 as stated: after a file/folder operation on a bundle that has its manifest,
\* the manifest is still at the bundle root
C5_ManifestPersists ==
    OnBundle => ManifestOf("b1") \in DOMAIN fs

\* the target of the last request, for the three operations that refuse the manifest
TargetOf(r) ==
    IF r.channel = "delete-file-or-folder" THEN r.data.targetPath ELSE r.data.oldPath

ProtectedError(channel) ==
    IF channel = "delete-file-or-folder" THEN "Cannot delete SKILL.md - it is required"
    ELSE IF channel = "rename-file-or-folder" THEN "Cannot rename SKILL.md"
    ELSE "Cannot move SKILL.md"

GenericError(channel) ==
    IF channel = "delete-file-or-folder" THEN "Failed to delete file or folder"
    ELSE IF channel = "rename-file-or-folder" THEN "Failed to rename file or folder"
    ELSE "Failed to move file"

\* the last request was a delete, rename or move in bundle b1 of a target whose base
\* name is SKILL.md
OnManifest ==
    /\ req.channel \in {"delete-file-or-folder", "rename-file-or-folder", "move-file"}
    /\ req.data.skillPath = ManifestOf("b1")
    /\ basename(TargetOf(req)) = "SKILL.md"

\* the other arguments of the request pass the checks made ahead of the manifest
\* test: the target stays in the bundle, the new name of a rename sanitizes, the new
\* path of a move stays in the bundle
PassesEarlierChecks(r) ==
    /\ validateSkillPath(join(<<BundleDir("b1"), TargetOf(r)>>), BundleDir("b1")).ok
    /\ r.channel = "rename-file-or-folder" => sanitizeFileName(r.data.newName).ok
    /\ r.channel = "move-file" =>
           validateSkillPath(join(<<BundleDir("b1"), r.data.newPath>>), BundleDir("b1")).ok

C7_CreatedNamesSanitized ==
    req.channel \in FileFolderChannels =>
        \A p \in Created(prev, fs) :
            StrictlyInside(p, BundleDir("b1")) =>
                \A i \in 1..Len(basename(p)) : Ch(basename(p), i) \in NameClass

\* the directory a request works in: the parent of its validated bundle path
WorkDir(r) == dirname(Canonical(r.data.skillPath, getSkillsDir))

\* the node a rename request names, and the sibling it asks for: same parent, the
\* new name without the characters outside [A-Za-z0-9._-]
RenameOld(r) == Canonical(r.data.oldPath, WorkDir(r))
RenameKept(r) == JoinSegs(Kept(r.data.newName, NameClass), "")
RenameSibling(r) ==
    (IF dirname(RenameOld(r)) = "/" THEN "" ELSE dirname(RenameOld(r))) \o "/" \o RenameKept(r)

\* a rename request in bundle b1 that names a node of the bundle other than a
\* manifest and asks for a valid new name other than "." and ".."
RenameInBundle ==
    /\ req.channel = "rename-file-or-folder"
    /\ req.data.skillPath = ManifestOf("b1")
    /\ Under(RenameOld(req), BundleDir("b1"))
    /\ basename(RenameOld(req)) # "SKILL.md"
    /\ RenameKept(req) \notin {"", ".", ".."}
    /\ StrictlyInside(RenameSibling(req), BundleDir("b1"))

C12_RenameKeepsParent ==
    (req.channel = "rename-file-or-folder" /\ res.success) =>
        /\ RenameOld(req) \in DOMAIN prev
        /\ RenameOld(req) \notin DOMAIN fs
        /\ dirname(RenameSibling(req)) = dirname(RenameOld(req))
        /\ basename(RenameSibling(req)) = RenameKept(req)
        /\ \A q \in DOMAIN prev :
               IF Within(q, RenameOld(req))
               THEN /\ Moved(q, RenameOld(req), RenameSibling(req)) \in DOMAIN fs
                    /\ fs[Moved(q, RenameOld(req), RenameSibling(req))] = prev[q]
               ELSE q \in DOMAIN fs /\ fs[q] = prev[q]
        /\ \A q \in DOMAIN fs : q \in DOMAIN prev \/ Within(q, RenameSibling(req))

\* a file in a subfolder is renamed with a name that has a slash in it
C12_Witness ==
    /\ req.channel = "rename-file-or-folder"
    /\ req.data = [skillPath |-> ManifestOf("b1"), oldPath |-> "docs/n.md",
                   newName |-> "x/y.md"]
    /\ res.success
    /\ BundleDir("b1") \o "/docs/xy.md" \in DOMAIN fs

\* the folder an upload request writes under
UploadTarget(r) == Canonical(r.data.targetFolder, WorkDir(r))

\* the name of an uploaded file as sanitization leaves it: its slash-free runs, each
\* without the characters outside [A-Za-z0-9._-], joined by "/"
CleanSegments(name) ==
    [k \in 1..Len(RawSegments(name)) |-> JoinSegs(Kept(RawSegments(name)[k], NameClass), "")]
CleanName(name) == JoinSegs(CleanSegments(name), "/")

\* the name passes sanitization
NameOk(name) ==
    /\ Len(RawSegments(name)) > 0
    /\ \A k \in 1..Len(RawSegments(name)) :
           /\ CleanSegments(name)[k] \notin {"", ".", ".."}
           /\ Len(CleanSegments(name)[k]) <= 255

UploadDest(r, file) == UploadTarget(r) \o "/" \o CleanName(file.name)

\* the file of the batch can be written on the disk f: its name passes sanitization,
\* no directory is in its place and no file is in the place of a folder above it
Uploadable(f, r, file) ==
    /\ NameOk(file.name)
    /\ ~(UploadDest(r, file) \in DOMAIN f /\ f[UploadDest(r, file)].kind = "dir")
    /\ \A a \in AncestorsOrSelf(UploadDest(r, file)) \ {UploadDest(r, file)} :
           ~(a \in DOMAIN f /\ f[a].kind = "file")

\* the target folder of the upload is there on f or can be made: no file is in its
\* place or in the place of a directory above it
TargetMakeable(f, r) ==
    \A a \in AncestorsOrSelf(UploadTarget(r)) : ~(a \in DOMAIN f /\ f[a].kind = "file")

\* C16: an upload whose target folder lies in the working directory and can be made
\* succeeds whatever the files are; uploadedFiles names, in order, the files that did not fail, and
\* count is its length; each of them is on disk under the target folder with its
\* data, also when it comes after a file that failed; nothing is created for a file
\* that failed
C16_UploadBestEffort ==
    (/\ req.channel = "upload-files"
     /\ Under(UploadTarget(req), WorkDir(req))
     /\ TargetMakeable(prev, req)) =>
        LET good == SelectSeq(req.data.files, LAMBDA file : Uploadable(prev, req, file))
        IN /\ res.success
           /\ res.uploadedFiles = [k \in 1..Len(good) |-> CleanName(good[k].name)]
           /\ res.count = Len(res.uploadedFiles)
           /\ \A k \in 1..Len(good) :
                  /\ UploadDest(req, good[k]) \in DOMAIN fs
                  /\ fs[UploadDest(req, good[k])] = File(good[k].data)
           /\ \A p \in Changed(prev, fs) :
                  \/ Within(UploadTarget(req), p)
                  \/ \E k \in 1..Len(good) : Within(UploadDest(req, good[k]), p)

\* of three files the second has a name that sanitizes to nothing: the two others
\* are written and reported
C16_Witness ==
    /\ req.channel = "upload-files"
    /\ req.data = [skillPath |-> ManifestOf("b1"), targetFolder |-> "",
                   files |-> <<Upload("u.txt"), Upload("!!!"), Upload("v.txt")>>]
    /\ res = [success |-> TRUE, uploadedFiles |-> <<"u.txt", "v.txt">>, count |-> 2]
    /\ BundleDir("b1") \o "/v.txt" \in DOMAIN fs
    /\ BundleDir("b1") \o "/v.txt" \notin DOMAIN prev

(***************************************************************************)
(* Properties of bundles coming and going, checked under SpecBundles       *)
(***************************************************************************)
\* the entries list-skills returns on the disk f, whatever the order it reads in
Listed(f) == {listSkills(f, "ascending").res[k] : k \in 1..Len(listSkills(f, "ascending").res)}

\* the lower-cased name without the characters outside [a-z0-9-]
BundleNameOf(name) == JoinSegs(LoweredKept(name), "")

\* sp has the form <root>/B/SKILL.md; the directory <root>/B
IsManifestPath(sp) ==
    /\ Len(sp) > Len(getSkillsDir) + 10
    /\ SubSeq(sp, 1, Len(getSkillsDir) + 1) = getSkillsDir \o "/"
    /\ SubSeq(sp, Len(sp) - 8, Len(sp)) = "/SKILL.md"
    /\ \A i \in (Len(getSkillsDir) + 2)..(Len(sp) - 9) : Ch(sp, i) # "/"
BundleDirOf(sp) == SubSeq(sp, 1, Len(sp) - 9)

\* C13: after create-skill succeeds, list-skills has an entry with the sanitized
\* name and the path <root>/<name>/SKILL.md; after delete-skill succeeds on the path
\* of a listed entry, list-skills has the entries it had before except that one
C13_BundleRoundTrip ==
    /\ (req.channel = "create-skill" /\ res.success) =>
           \E e \in Listed(fs) :
               /\ e.name = BundleNameOf(req.data.name)
               /\ e.path = getSkillsDir \o "/" \o BundleNameOf(req.data.name) \o "/SKILL.md"
    /\ (req.channel = "delete-skill" /\ res.success
        /\ \E e \in Listed(prev) : e.path = req.data.skillPath) =>
           Listed(fs) = {e \in Listed(prev) : e.path # req.data.skillPath}

\* a bundle that was created is deleted again, next to other bundles that stay
C13_Witness ==
    /\ req.channel = "delete-skill"
    /\ req.data.skillPath = ManifestOf("widget")
    /\ res.success
    /\ \E e \in Listed(prev) : e.name = "widget" /\ e.description = "No description"
    /\ \A e \in Listed(fs) : e.name # "widget"
    /\ \E e \in Listed(fs) : e.name = "b1"

\* C14: delete-skill on the manifest path of a bundle whose directory exists removes
\* that directory with everything in it and nothing else; when the directory does not
\* exist it returns the failure "Skill directory does not exist" and the disk is as
\* it was
C14_DeleteBundle ==
    (req.channel = "delete-skill" /\ IsManifestPath(req.data.skillPath)) =>
        IF BundleDirOf(req.data.skillPath) \in DOMAIN prev
        THEN /\ res = [success |-> TRUE]
             /\ DOMAIN fs = {q \in DOMAIN prev : ~Under(q, BundleDirOf(req.data.skillPath))}
             /\ \A q \in DOMAIN fs : fs[q] = prev[q]
        ELSE /\ res = Failure("Skill directory does not exist")
             /\ fs = prev

\* a bundle with files and a folder is deleted next to a bundle whose name begins
\* with its name
C14_Witness ==
    /\ req.channel = "delete-skill"
    /\ req.data.skillPath = ManifestOf("b1")
    /\ BundleDir("b1") \o "/docs/n.md" \in DOMAIN prev
    /\ BundleDir("b1") \notin DOMAIN fs
    /\ ManifestOf("b1-old") \in DOMAIN fs
    /\ res.success

\* the manifests of the library on the disk f
Manifests(f) == {m \in DOMAIN f : IsManifestPath(m) /\ f[m].kind = "file"}

\* the k-th name the import tries for the base name n
Candidate(n, k) == IF k = 0 THEN n ELSE n \o "-" \o ToString(k)

\* the last request asked load-skill for a manifest outside the library whose parent
\* directory name sanitizes to a bundle name
ImportRequest ==
    /\ req.channel = "load-skill"
    /\ ~Under(Canonical(req.data.skillPath, Cwd), getSkillsDir)
    /\ Canonical(req.data.skillPath, Cwd) \in DOMAIN prev
    /\ prev[Canonical(req.data.skillPath, Cwd)].kind = "file"
    /\ toLowerCase(basename(req.data.skillPath)) = "skill.md"
    /\ sanitizeSkillName(basename(dirname(req.data.skillPath))).ok

\* C15: an import creates the bundle under the first of N, N-1, N-2, ... whose
\* directory holds no SKILL.md, with the content of the source; no manifest that was
\* there is overwritten; the new bundle and the bundles that were there load with
\* their own content
C15_ImportDedup ==
    ImportRequest =>
        LET n == BundleNameOf(basename(dirname(req.data.skillPath)))
            source == prev[Canonical(req.data.skillPath, Cwd)]
        IN /\ res.success
           /\ res.imported
           /\ \E k \in 0..Cardinality(Manifests(prev)) :
                  /\ res.skillName = Candidate(n, k)
                  /\ \A j \in 0..(k - 1) :
                         getSkillsDir \o "/" \o Candidate(n, j) \o "/SKILL.md" \in DOMAIN prev
                  /\ getSkillsDir \o "/" \o Candidate(n, k) \o "/SKILL.md" \notin DOMAIN prev
           /\ res.path = getSkillsDir \o "/" \o res.skillName \o "/SKILL.md"
           /\ res.content = source.content
           /\ \A m \in Manifests(prev) : m \in DOMAIN fs /\ fs[m] = prev[m]
           /\ loadSkill(fs, res.path, req.data.now).res =
                  [success |-> TRUE, content |-> source.content, path |-> res.path]
           /\ \A m \in Manifests(prev) :
                  loadSkill(fs, m, req.data.now).res =
                      [success |-> TRUE, content |-> prev[m].content, path |-> m]

\* two different manifests with the same parent directory name have been imported:
\* "widget" holds the first, "widget-1" the second
C15_Witness ==
    /\ req.channel = "load-skill"
    /\ req.data.skillPath = "/ext2/widget/SKILL.md"
    /\ res.success
    /\ res.skillName = "widget-1"
    /\ ManifestOf("widget") \in DOMAIN fs
    /\ fs[ManifestOf("widget")] = File(ExternalFiles["/ext1/widget/SKILL.md"])
    /\ fs[ManifestOf("widget-1")] = File(ExternalFiles["/ext2/widget/SKILL.md"])

(***************************************************************************)
(* Listings                                                                *)
(***************************************************************************)
\* the names of the subdirectories of the library root on the disk f
Subdirectories(f) ==
    {basename(p) : p \in {q \in DOMAIN f : /\ q # getSkillsDir
                                           /\ dirname(q) = getSkillsDir
                                           /\ f[q].kind = "dir"}}

\* the manifest of the bundle called n can be read on f
ManifestReadable(f, n) ==
    ManifestOf(n) \in DOMAIN f /\ f[ManifestOf(n)].kind = "file"

\* the library root of f cannot be read as a directory
RootUnreadable(f) == getSkillsDir \in DOMAIN f /\ f[getSkillsDir].kind # "dir"

ListedSkills == req.channel = "list-skills"

\* C17: list-skills reports a subdirectory of the library root if and only if its
\* manifest can be read and its name passes sanitizeSkillName, once each; what it
\* reports for a bundle is that bundle's name, manifest path and description, whatever
\* the other subdirectories are like; a library root that cannot be read gives the
\* empty sequence
C17_ListIsolation ==
    ListedSkills =>
        /\ {res[k].name : k \in 1..Len(res)} =
               {n \in Subdirectories(prev) :
                    ManifestReadable(prev, n) /\ sanitizeSkillName(n).ok}
        /\ \A j, k \in 1..Len(res) : res[j].name = res[k].name => j = k
        /\ \A k \in 1..Len(res) :
               res[k] = [name |-> res[k].name,
                         path |-> ManifestOf(res[k].name),
                         description |->
                             Description(prev[ManifestOf(res[k].name)].content)]
        /\ RootUnreadable(prev) => res = <<>>

\* a library with bundles that list, next to a directory without manifest, one whose
\* manifest is a directory and two whose names fail sanitization, has been listed
C17_Witness ==
    /\ ListedSkills
    /\ Len(res) = 2
    /\ \E k \in 1..Len(res) : res[k].name = "b1" /\ res[k].description = "one"
    /\ {"nomanifest", "dirman", "skill", "___"} \subseteq Subdirectories(prev)
    /\ ManifestReadable(prev, "skill") /\ ManifestReadable(prev, "___")

\* list-skill-files has returned the tree of the bundle at BundleRoot
ListedFiles == req.channel = "list-skill-files" /\ res.success
BundleRoot == dirname(req.data.skillPath)

\* the names a tree leaves out
HiddenName(n) == StartsWith(n, ".") \/ n = "node_modules"

\* the nodes of a list are in order: no file before a folder, and among the folders
\* and among the files the names ascend as localeCompare orders them
InOrder(nodes) ==
    \A j, k \in 1..Len(nodes) :
        j < k => /\ nodes[j].type = "file" => nodes[k].type = "file"
                 /\ nodes[j].type = nodes[k].type =>
                        localeCompare(nodes[j].name, nodes[k].name) < 0

RECURSIVE OrderedTree(_)
OrderedTree(nodes) ==
    /\ InOrder(nodes)
    /\ \A k \in 1..Len(nodes) :
           nodes[k].type = "folder" => OrderedTree(nodes[k].children)

\* C18: in the tree list-skill-files returns and in the children of every folder node
\* at every depth, the folders come before the files, and the folders and the files
\* are each in ascending order of name (the order of localeCompare)
C18_TreeOrdering == ListedFiles => OrderedTree(res.files)

\* the bundle with b.txt, a.txt and a folder z has been listed as z, a.txt, b.txt and
\* the manifest, from a directory read in descending order
C18_Witness ==
    /\ ListedFiles
    /\ req.data.order = "descending"
    /\ [k \in 1..Len(res.files) |-> res.files[k].name] = <<"z", "a.txt", "b.txt", "SKILL.md">>
    /\ res.files[1].type = "folder"
    /\ Len(res.files[1].children) = 1

\* where each node of a tree built for directory dir is on the disk, with its kind,
\* its path and the length of its children sequence (-1 without one)
RECURSIVE NodesAt(_, _)
NodesAt(nodes, dir) ==
    UNION {{[at |-> dir \o "/" \o nodes[k].name,
             path |-> nodes[k].path,
             folder |-> nodes[k].type = "folder",
             children |-> IF "children" \in DOMAIN nodes[k]
                          THEN Len(nodes[k].children) ELSE -1]}
           \cup (IF nodes[k].type = "folder"
                 THEN NodesAt(nodes[k].children, dir \o "/" \o nodes[k].name)
                 ELSE {}) : k \in 1..Len(nodes)}

RECURSIVE CountNodes(_, _)
CountNodes(nodes, k) ==
    IF k > Len(nodes) THEN 0
    ELSE 1 + CountNodes(nodes, k + 1)
           + (IF nodes[k].type = "folder" THEN CountNodes(nodes[k].children, 1) ELSE 0)

\* the entries below directory d on disk f that no hidden name leads to
VisibleBelow(f, d) ==
    {p \in DOMAIN f :
        /\ p # d
        /\ Within(p, d)
        /\ \A n \in {Split(SubSeq(p, Len(d) + 2, Len(p)), {sep})[k] :
                       k \in 1..Len(Split(SubSeq(p, Len(d) + 2, Len(p)), {sep}))} :
               ~HiddenName(n)}

\* C19: the tree of a bundle holds, once each, exactly the entries of the bundle
\* directory that no name beginning with "." or equal to "node_modules" leads to,
\* folders as folders and files as files, and every folder node has a children
\* sequence with one node for each of its visible entries, none when it has none
C19_TreeContents ==
    ListedFiles =>
        /\ {n.at : n \in NodesAt(res.files, BundleRoot)} = VisibleBelow(prev, BundleRoot)
        /\ CountNodes(res.files, 1) = Cardinality(VisibleBelow(prev, BundleRoot))
        /\ \A n \in NodesAt(res.files, BundleRoot) :
               /\ n.folder <=> prev[n.at].kind = "dir"
               /\ n.folder =>
                      n.children = Cardinality({p \in VisibleBelow(prev, BundleRoot) :
                                                   dirname(p) = n.at})

\* a bundle with node_modules, a folder holding a hidden directory only and an empty
\* folder has been listed: both folders are there with no children, the rest is not
C19_Witness ==
    /\ ListedFiles
    /\ BundleRoot \o "/node_modules/m.js" \in DOMAIN prev
    /\ BundleRoot \o "/z/.cache/t.md" \in DOMAIN prev
    /\ Len(res.files) = 3
    /\ res.files[1] = [name |-> "empty", path |-> "empty", type |-> "folder",
                       children |-> <<>>]
    /\ res.files[2] = [name |-> "z", path |-> "z", type |-> "folder", children |-> <<>>]
    /\ res.files[3].name = "SKILL.md"

\* every node of a tree below the node whose path is parent has the path made of
\* parent, "/" and its name
RECURSIVE SlashPaths(_, _)
SlashPaths(nodes, parent) ==
    \A k \in 1..Len(nodes) :
        /\ nodes[k].path = (IF parent = "" THEN "" ELSE parent \o "/") \o nodes[k].name
        /\ nodes[k].type = "folder" => SlashPaths(nodes[k].children, nodes[k].path)

\* C20: every node path of a tree list-skill-files returns is the names from the
\* bundle root down to the node joined by "/", names an entry of the bundle, does not
\* begin with "/" and has no ".." segment
C20_NodePaths ==
    ListedFiles =>
        /\ SlashPaths(res.files, "")
        /\ \A n \in NodesAt(res.files, BundleRoot) :
               /\ ~StartsWith(n.path, "/")
               /\ \A k \in 1..Len(Split(n.path, {"/", "\\"})) :
                      Split(n.path, {"/", "\\"})[k] # ".."
               /\ BundleRoot \o "/" \o n.path = n.at

(***************************************************************************)
(* Saving and creating over what is there, checked under Spec              *)
(***************************************************************************)
\* the file a save request names
SaveTarget(r) == Canonical(r.data.skillPath, getSkillsDir)

\* C27: save-skill on a path inside the library root that names a file there succeeds
\* and leaves the disk as it was but for that file, which holds the given content;
\* on a path outside the library root it fails and the disk is as it was
C27_SaveOverwrites ==
    req.channel = "save-skill" =>
        /\ (/\ Under(SaveTarget(req), getSkillsDir)
            /\ SaveTarget(req) \in DOMAIN prev
            /\ prev[SaveTarget(req)].kind = "file") =>
               /\ res = [success |-> TRUE]
               /\ fs = [prev EXCEPT ![SaveTarget(req)] = File(req.data.content)]
        /\ ~Under(SaveTarget(req), getSkillsDir) =>
               /\ res = Failure("Failed to save skill")
               /\ fs = prev

\* the manifest of b1 has been saved over: it holds the new content, its neighbour is
\* as it was
C27_Witness ==
    /\ req.channel = "save-skill"
    /\ req.data.skillPath = ManifestOf("b1")
    /\ ManifestOf("b1") \in DOMAIN prev
    /\ prev[ManifestOf("b1")] = File("manifest one")
    /\ fs[ManifestOf("b1")] = File("new")
    /\ fs[BundleDir("b1") \o "/a.txt"] = File("text")

\* the manifest of the bundle a create-skill request names
CreatedManifest(r) == ManifestOf(sanitizeSkillName(r.data.name).value)

\* a create-skill request for a bundle that is there with its manifest
CreateOverExisting ==
    /\ req.channel = "create-skill"
    /\ sanitizeSkillName(req.data.name).ok
    /\ CreatedManifest(req) \in DOMAIN prev
    /\ prev[CreatedManifest(req)].kind = "file"

\* C28: create-skill for a bundle that is there succeeds, puts the given content in
\* its manifest and leaves every other file and folder as it was
C28_CreateOverExisting ==
    CreateOverExisting =>
        /\ res = [success |-> TRUE, path |-> dirname(CreatedManifest(req))]
        /\ fs = [prev EXCEPT ![CreatedManifest(req)] = File(req.data.content)]

\* b1 has been created again: new manifest content, its files still there
C28_Witness ==
    /\ CreateOverExisting
    /\ req.data.name = "b1"
    /\ prev[ManifestOf("b1")] = File("manifest one")
    /\ fs[ManifestOf("b1")] = File("new")
    /\ fs[BundleDir("b1") \o "/docs/n.md"] = File("text")

(***************************************************************************)
(* Moving a node, checked under Spec                                       *)
(***************************************************************************)
\* the node a move request names and the place it asks for
MoveOld(r) == Canonical(r.data.oldPath, WorkDir(r))
MoveNew(r) == Canonical(r.data.newPath, WorkDir(r))

\* a move request in bundle b1 whose two paths lie in the bundle
MoveInBundle ==
    /\ req.channel = "move-file"
    /\ req.data.skillPath = ManifestOf("b1")
    /\ Under(MoveOld(req), BundleDir("b1"))
    /\ Under(MoveNew(req), BundleDir("b1"))

NotFound == Failure("Source file does not exist")
AlreadyExists == Failure("A file with that name already exists in the target folder")

\* the disk b is the disk a with the node at old, and all below it, at new instead,
\* and the directories above new made where they were missing
MovedTo(a, b, old, new) ==
    /\ DOMAIN b = {q \in DOMAIN a : ~Within(q, old)}
                  \cup {new \o SubSeq(q, Len(old) + 1, Len(q)) :
                            q \in {x \in DOMAIN a : Within(x, old)}}
                  \cup AncestorsOrSelf(dirname(new))
    /\ \A q \in DOMAIN a :
           IF Within(q, old) THEN b[new \o SubSeq(q, Len(old) + 1, Len(q))] = a[q]
           ELSE b[q] = a[q]
    /\ \A d \in AncestorsOrSelf(dirname(new)) : b[d].kind = "dir"

\* the three cases of a move, for the requests that satisfy `can`
MoveCases(can) ==
    /\ MoveOld(req) \notin DOMAIN prev => (res = NotFound /\ fs = prev)
    /\ (MoveOld(req) \in DOMAIN prev /\ MoveNew(req) \in DOMAIN prev) =>
           (res = AlreadyExists /\ fs = prev)
    /\ (MoveOld(req) \in DOMAIN prev /\ MoveNew(req) \notin DOMAIN prev /\ can) =>
           (res = [success |-> TRUE] /\ MovedTo(prev, fs, MoveOld(req), MoveNew(req)))

\* C26 as stated: a move whose old path does not exist fails with NotFound, one whose
\* new path exists fails with AlreadyExists, and every other move succeeds with the
\* node and its subtree at the new path and the rest of the bundle as it was
C26_MoveAsStated == MoveInBundle => MoveCases(TRUE)

\* the new path can hold the node: it does not lie in the node itself, and no file is
\* where a directory above it has to be
Movable(f, old, new) ==
    /\ ~Within(new, old)
    /\ \A d \in AncestorsOrSelf(dirname(new)) : ~(d \in DOMAIN f /\ f[d].kind = "file")

\* C26: for a node that is not called SKILL.md, a move whose old path does not exist
\* fails with NotFound, one whose new path exists fails with AlreadyExists, and one
\* whose new path is free, lies outside the node and below no file succeeds with the
\* node and its subtree at the new path and everything else as it was
C26_Move ==
    (MoveInBundle /\ basename(MoveOld(req)) # "SKILL.md") =>
        MoveCases(Movable(prev, MoveOld(req), MoveNew(req)))

\* a.txt has moved into a folder that was not there, next to the folder it was beside
C26_Witness ==
    /\ MoveInBundle
    /\ req.data.oldPath = "a.txt" /\ req.data.newPath = "docs/sub/a.txt"
    /\ res = [success |-> TRUE]
    /\ BundleDir("b1") \o "/a.txt" \in DOMAIN prev
    /\ BundleDir("b1") \o "/a.txt" \notin DOMAIN fs
    /\ fs[BundleDir("b1") \o "/docs/sub/a.txt"] = File("text")
    /\ fs[BundleDir("b1") \o "/docs/n.md"] = File("text")

(***************************************************************************)
(* What create-file and create-folder return, checked under Spec           *)
(***************************************************************************)
\* where the path a create request returned leads, from the bundle directory
ReturnedNode(r, reply) == Canonical(reply.path, WorkDir(r))

\* C23 as stated: a create-file or create-folder request that succeeds returns the
\* relative path at which the node is stored: the bundle directory joined with it is
\* the created node, a file with the given content or a folder
C23_ReturnedPathStored ==
    (/\ req.channel \in {"create-file", "create-folder"}
     /\ req.data.skillPath = ManifestOf("b1")
     /\ res.success) =>
        /\ ReturnedNode(req, res) \in DOMAIN fs
        /\ fs[ReturnedNode(req, res)] =
               (IF req.channel = "create-file" THEN File(req.data.content) ELSE Dir)

(***************************************************************************)
(* The two branches of load-skill, checked under SpecBundles               *)
(***************************************************************************)
\* where a load-skill path leads when it is taken from the library root, and when it
\* is taken as a path of its own
LoadInPlace(r) == Canonical(r.data.skillPath, getSkillsDir)
LoadSource(r) == Canonical(r.data.skillPath, Cwd)

\* the entries of the library root on the disk f
RootEntries(f) == {p \in DOMAIN f : p # getSkillsDir /\ dirname(p) = getSkillsDir}

\* between the disks a and b nothing happened but, at most, the making of the
\* library root
OnlyRootMade(a, b) ==
    \A p \in Changed(a, b) : Within(getSkillsDir, p) /\ p \notin DOMAIN a /\ b[p] = Dir

\* the file at LoadSource can be imported: it is there and its base name is skill.md
\* in some spelling of case
Importable(f, r) ==
    /\ LoadSource(r) \in DOMAIN f
    /\ toLowerCase(basename(LoadSource(r))) = "skill.md"

\* C25: load-skill on a path inside the library root reads the file in place, fails
\* when it is missing, never imports and leaves the entries of the root as they
\* were; on a path outside the root it succeeds only by importing a file that exists
\* and is called skill.md in some case, and otherwise fails and makes no bundle
\* directory
C25_LoadBranches ==
    req.channel = "load-skill" =>
        /\ Under(LoadInPlace(req), getSkillsDir) =>
               /\ "imported" \notin DOMAIN res
               /\ OnlyRootMade(prev, fs)
               /\ LoadInPlace(req) \notin DOMAIN prev =>
                      res = Failure("Skill file does not exist")
               /\ (LoadInPlace(req) \in DOMAIN prev /\ prev[LoadInPlace(req)].kind = "file") =>
                      res = [success |-> TRUE, content |-> prev[LoadInPlace(req)].content,
                             path |-> LoadInPlace(req)]
        /\ ~Under(LoadInPlace(req), getSkillsDir) =>
               /\ res.success => (res.imported /\ Importable(prev, req))
               /\ ~Importable(prev, req) =>
                      (~res.success /\ RootEntries(fs) = RootEntries(prev)
                       /\ OnlyRootMade(prev, fs))

\* a manifest of the library has been loaded in place, and nothing was imported
C25_Witness ==
    /\ req.channel = "load-skill"
    /\ req.data.skillPath = ManifestOf("widget")
    /\ res.success
    /\ res.path = ManifestOf("widget")
    /\ "imported" \notin DOMAIN res
    /\ fs = prev

(***************************************************************************)
(* Loading a file, checked under SpecFiles                                 *)
(***************************************************************************)
\* the file a load-file request names, and whether it is a file inside the library
LoadTarget(r) == Canonical(r.data.filePath, getSkillsDir)
LoadsFile(f, r) ==
    /\ r.channel = "load-file"
    /\ r.data.filePath # ""
    /\ Under(LoadTarget(r), getSkillsDir)
    /\ LoadTarget(r) \in DOMAIN f
    /\ f[LoadTarget(r)].kind = "file"

\* the extension of the file is in the allow-list, whatever its case
AllowedExtension(p) == toLowerCase(extname(basename(p))) \in EDITABLE_EXTENSIONS

\* ten times two to the twentieth
TenMiB == 10485760

\* C21: load-file returns the content of the file, with editable = true, if and only
\* if the path names a file inside the library root whose extension is in the
\* allow-list and whose size is at most 10 MiB; a larger file is reported with
\* success, no content, editable = false and tooBig = true whatever its extension; a
\* file of allowed size whose extension is not in the list is reported with success,
\* no content and editable = false
C21_LoadFile ==
    req.channel = "load-file" =>
        /\ (res.success /\ res.metadata.editable) <=>
               (/\ LoadsFile(prev, req)
                /\ AllowedExtension(LoadTarget(req))
                /\ SizeOf(prev[LoadTarget(req)]) <= TenMiB)
        /\ (res.success /\ res.metadata.editable) =>
               res.content = prev[LoadTarget(req)].content
        /\ (LoadsFile(prev, req) /\ SizeOf(prev[LoadTarget(req)]) > TenMiB) =>
               /\ res.success /\ res.content = ""
               /\ ~res.metadata.editable
               /\ "tooBig" \in DOMAIN res.metadata /\ res.metadata.tooBig
        /\ (/\ LoadsFile(prev, req)
            /\ SizeOf(prev[LoadTarget(req)]) <= TenMiB
            /\ ~AllowedExtension(LoadTarget(req))) =>
               /\ res.success /\ res.content = ""
               /\ ~res.metadata.editable
               /\ "tooBig" \notin DOMAIN res.metadata
        /\ fs = prev

\* a text file of exactly 10 MiB has been loaded
C21_Witness ==
    /\ LoadsFile(prev, req)
    /\ req.data.filePath = BundleDir("b1") \o "/NOTES.TXT"
    /\ SizeOf(prev[LoadTarget(req)]) = TenMiB
    /\ res.success
    /\ res.metadata.editable
    /\ res.content = "bytes"

(***************************************************************************)
(* C29: the tracking set during an export                                  *)
(***************************************************************************)
\* this step is the synchronous part of a 'create-zip' request
ZipRequested == nops' = nops + 1 /\ req'.channel = "create-zip"

\* this step signals the end of the export under way: its success, its failure
ZipResolved == output.state = "open" /\ output'.state = "closed"
ZipRejected == output.state = "open" /\ output'.state = "failed"

IsRejection(r) == "rejected" \in DOMAIN r
IsPending(r) == "pending" \in DOMAIN r

TrackedThroughExport ==
    /\ (ZipRequested /\ IsPending(res')) =>
           /\ output'.state = "open"
           /\ output'.zipPath \in trackedTempFiles'
           /\ trackedTempFiles' = trackedTempFiles \cup {output'.zipPath}
    /\ ZipResolved =>
           /\ res' = [success |-> TRUE, zipPath |-> output.zipPath]
           /\ output.zipPath \in trackedTempFiles
           /\ trackedTempFiles' = trackedTempFiles
    /\ ZipRejected =>
           /\ IsRejection(res')
           /\ output.zipPath \notin trackedTempFiles'
    /\ (ZipRequested /\ IsRejection(res')) =>
           /\ output'.state = "none"
           /\ trackedTempFiles' = trackedTempFiles

\* C29: an export that starts has its archive path in the tracking set from the step
\* that opens its stream, so before its success is signalled; when it fails with a
\* stream or archiver error the path is out of the set at the step that signals the
\* failure; a request that fails before it has an archive path leaves the set as it was
C29_TempRegistry == [][TrackedThroughExport]_vars

\* an export has failed on its stream after an earlier one was registered and closed
C29_Witness ==
    /\ output.state = "failed"
    /\ IsRejection(res)
    /\ output.zipPath \notin trackedTempFiles
    /\ trackedTempFiles # {}

(***************************************************************************)
(* C24: the entries of an exported archive                                 *)
(***************************************************************************)
\* the names of the file entries of an archive, and the files below a directory by
\* their paths from it
FileEntries(entries) == {n \in DOMAIN entries : entries[n].kind = "file"}
FilesBelow(f, d) ==
    {SubSeq(p, Len(d) + 2, Len(p)) :
        p \in {q \in DOMAIN f : q # d /\ Within(q, d) /\ f[q].kind = "file"}}

\* C24: the file entries of an archive whose stream has closed are the files under the
\* bundle directory, each under its path from the bundle directory and with its
\* content; the folders are there as entries of their own, under the same paths
C24_ArchiveContent ==
    output.state = "closed" =>
        /\ "entries" \in DOMAIN fs[output.zipPath]
        /\ FileEntries(fs[output.zipPath].entries) = FilesBelow(fs, output.skillDir)
        /\ \A n \in FileEntries(fs[output.zipPath].entries) :
               fs[output.zipPath].entries[n] = fs[output.skillDir \o "/" \o n]
        /\ \A n \in DOMAIN fs[output.zipPath].entries \ FileEntries(fs[output.zipPath].entries) :
               /\ fs[output.zipPath].entries[n].kind = "dir"
               /\ n = SubSeq(n, 1, Len(n) - 1) \o "/"
               /\ output.skillDir \o "/" \o SubSeq(n, 1, Len(n) - 1) \in DOMAIN fs

\* bundle b1 was exported: its manifest, a file in a folder and a hidden file are
\* entries of the archive
C24_Witness ==
    /\ output.state = "closed"
    /\ output.skillDir = BundleDir("b1")
    /\ "entries" \in DOMAIN fs[output.zipPath]
    /\ "SKILL.md" \in DOMAIN fs[output.zipPath].entries
    /\ ".env" \in DOMAIN fs[output.zipPath].entries
    /\ \E n \in FileEntries(fs[output.zipPath].entries) :
           \E i \in 1..Len(n) : Ch(n, i) = "/"

(***************************************************************************)
(* C22: what a request ends with                                           *)
(***************************************************************************)
\* C22 as stated: a 'create-zip' request that has ended holds an outcome value,
\* success or failure, and was not rejected
C22_OutcomeReturned ==
    (req.channel = "create-zip" /\ ~IsPending(res)) => "success" \in DOMAIN res

(***************************************************************************)
(* C30: the tracking set after a drag                                      *)
(***************************************************************************)
\* C30 as stated: once an archive has been handed to the native drag, its path is out
\* of the tracking set and its file is off the disk
C30_DrainedOnDrag ==
    (req.channel = "start-drag" /\ res = [event |-> "drag", file |-> req.data.zipPath]) =>
        /\ req.data.zipPath \notin trackedTempFiles
        /\ req.data.zipPath \notin DOMAIN fs

(***************************************************************************)
(* C31: the sweep at exit                                                  *)
(***************************************************************************)
\* an archive written by an export of this session is on disk
ArchiveLeft == \E p \in DOMAIN fs : "entries" \in DOMAIN fs[p]

\* C31 as stated: once the process has gone through before-quit and ended, an unlink
\* was tried on every path of the tracking set and no archive made in the session is
\* left on disk
C31_ExitSweep ==
    app.phase = "exited" =>
        /\ trackedTempFiles \subseteq app.swept
        /\ ~ArchiveLeft

(***************************************************************************)
(* C32: the cleanup at startup                                             *)
(***************************************************************************)
\* C32 as stated: while cleanupOldTempFiles has files left to look at, the application
\* has no window and no request has been handled
C32_PrunedBeforeWindow ==
    (app.phase \in {"launching", "pruning"} /\ app.queue # {}) =>
        /\ app.windows = 0
        /\ req = NoRequest

(***************************************************************************)
(* C33: the paths of the archives                                          *)
(***************************************************************************)
\* C33 as stated: the path an export gets is not the path of an archive made before
C33_DistinctPaths ==
    [][(ZipRequested /\ IsPending(res')) => output'.zipPath \notin trackedTempFiles]_vars

(***************************************************************************)
(* C37: the names of the bundles of a library that started empty           *)
(***************************************************************************)
\* name matches ^[a-z0-9-]+$, has 1 to 255 characters and is not the reserved name
BundleNameValid(name) ==
    /\ Len(name) >= 1
    /\ Len(name) <= 255
    /\ \A i \in 1..Len(name) : Ch(name, i) \in BundleNameClass
    /\ name # "skill"

\* C37 as stated: the folders create-skill and load-skill make in the library, and the
\* names list-skills returns, are valid bundle names
C37_BundleNames ==
    /\ req.channel \in {"create-skill", "load-skill"} =>
           \A p \in Created(prev, fs) :
               (dirname(p) = getSkillsDir /\ fs[p].kind = "dir") => BundleNameValid(basename(p))
    /\ req.channel = "list-skills" =>
           \A k \in 1..Len(res) : BundleNameValid(res[k].name)

(***************************************************************************)
(* C34: an edit reaches the disk                                           *)
(***************************************************************************)
\* the file the editor was filled from holds what the editor holds
Synced == ui.origin \in DOMAIN fs /\ fs[ui.origin].content = ui.editor

\* the next save would not go to the file the editor was filled from (the case of C35)
Strayed == savePath(ui) # ui.origin

\* C34: with the timer and the replies scheduled fairly and saves that succeed,
\* unsaved changes lead to a disk that holds the content of the editor, also when the
\* edit is made while an earlier save is in flight.  Behaviours in which the save
\* target leaves the edited file are let through, so that a violation is a lost edit
\* of the file that stays open.
C34_AutosaveLiveness == ui.hasUnsavedChanges ~> (Synced \/ Strayed)

(***************************************************************************)
(* C35: where autosave writes                                              *)
(***************************************************************************)
\* C35 as stated: a save request carries the content of the editor to the file that
\* content came from
C35_SaveTarget == req.channel = "save-skill" => req.data.skillPath = req.origin

(***************************************************************************)
(* C36: the selection after a rename or a move                             *)
(***************************************************************************)
\* the node of task t is the selected file or a folder above it
Selected(t) ==
    /\ ui.currentFile.set
    /\ (ui.currentFile.path = t.arg.a \/ StartsWith(ui.currentFile.path, t.arg.a \o "/"))

\* C36 as stated: when the renderer has handled the success of a rename or a move of
\* the selected file, or of a rename of a folder above it, nothing is at the old path
\* and the selection is cleared or names a file that is there
C36_SelectionFollows ==
    [][\A t \in ui.tasks \ ui'.tasks :
           (t.fn \in {"renamed", "moved"} /\ Selected(t)) =>
               /\ ui.currentSkillDir \o "/" \o t.arg.a \notin DOMAIN fs'
               /\ ui'.currentFile.set =>
                      ui'.currentSkillDir \o "/" \o ui'.currentFile.path \in DOMAIN fs']_vars

====
